---- MODULE Spec2Model ----
(***************************************************************************)
(* Client-side resilience primitives of the securenotify Python SDK:       *)
(*   - RequestDeduplicator  (utils/request_deduplicator.py)                *)
(*   - with_retry / RetryConfig (utils/retry.py)                           *)
(*   - RateLimiter          (utils/rate_limiter.py)                        *)
(*   - SSEClient            (utils/connection.py)                          *)
(*   - SubscribeManager     (managers/subscribe_manager.py)                *)
(* Each component is a state machine of its own over its own variables,    *)
(* with a specification of its own (SpecDedup, SpecRetry, SpecLimiter,     *)
(* SpecSSE, SpecReader, SpecChannels).                                     *)
(* All coroutines of a component run on one asyncio event loop thread: an  *)
(* action is the code a coroutine runs between two suspension points.      *)
(***************************************************************************)
EXTENDS Integers, Sequences, FiniteSets, TLC

Range(s) == {s[i] : i \in DOMAIN s}

Min(a, b) == IF a <= b THEN a ELSE b

Max(a, b) == IF a >= b THEN a ELSE b

(***************************************************************************)
(*                        REQUEST DEDUPLICATOR                             *)
(***************************************************************************)

\* Number of coroutines that call execute().
NumCallers == 2

\* Number of execute() calls made in one behaviour.
MaxCalls == 4

\* RequestDeduplicator(max_pending=...), a constructor argument.
max_pending == 1

\* RequestDeduplicator(max_cached=...), a constructor argument.
max_cached == 2

DCallers == 1..NumCallers

\* The requests the callers make: an endpoint and the params dictionary as
\* the caller builds it, the parameter names in construction order (None or
\* empty, {p1, p2} and {p2, p1}).
Requests == {<<"keys", <<>>>>, <<"keys", <<1, 2>>>>, <<"keys", <<2, 1>>>>,
             <<"channels", <<>>>>}

VARIABLES
    pending,      \* self._pending: insertion-ordered records [key, future]
    completed,    \* self._completed: OrderedDict as a sequence of [key, result]
    touched,      \* the keys ever cached, the one touched last at the end
    expired,      \* the cached keys whose result was completed more than
                  \* ttl_seconds ago
    pendingLock,  \* holder of self._pending_lock (a threading.Lock), 0 = free
    hung,         \* the event loop thread is blocked in Lock.acquire()
    future,       \* future[c]: the asyncio.Future created by caller c's execution
    dpc,          \* where each caller's execute() coroutine stands
    ckey,         \* key of the caller's current (or last) call
    cuse,         \* use_cache of the caller's current (or last) call
    cwait,        \* the future a duplicate caller awaits (its creator), 0 = none
    hits, misses, errors,   \* self._hits, self._misses, self._errors
    invocations,  \* number of times func() was invoked
    opId,         \* opId[c]: ordinal of the func() invocation caller c runs
    calls,        \* number of execute() calls started
    lastReturn    \* the execute() call that returned or raised last: its
                  \* key, use_cache and what it handed back

dvars == <<pending, completed, touched, expired, pendingLock, hung, future, dpc, ckey, cuse,
           cwait, hits, misses, errors, invocations, opId, calls,
           lastReturn>>

RECURSIVE SortKeys(_)
\* json.dumps(params, sort_keys=True): the parameter names in sorted order.
SortKeys(S) ==
    IF S = {} THEN <<>>
    ELSE LET m == CHOOSE x \in S : \A y \in S : x <= y
         IN  <<m>> \o SortKeys(S \ {m})

\* _generate_key: sha256 of "endpoint:params_str" (the hash is taken to be
\* injective, so the key is the hashed text itself).
generate_key(endpoint, params) ==
    <<endpoint, IF params = <<>> THEN <<>> ELSE SortKeys(Range(params))>>

NoKey == <<"", <<>>>>

NoFuture == [state |-> "none", val |-> 0]

InPending(k) == \E i \in DOMAIN pending : pending[i].key = k

PendingOf(k) == pending[CHOOSE i \in DOMAIN pending : pending[i].key = k]

InCompleted(k) == \E i \in DOMAIN completed : completed[i].key = k

CompletedOf(k) == completed[CHOOSE i \in DOMAIN completed : completed[i].key = k]

DropKey(seq, k) == SelectSeq(seq, LAMBDA r : r.key # k)

\* The keys of the completed cache.
CachedKeys(seq) == {seq[i].key : i \in DOMAIN seq}

\* The cache entry of key k is touched: inserted, or hit.
Touch(seq, k) == Append(SelectSeq(seq, LAMBDA x : x # k), k)

DInit ==
    /\ pending = <<>>
    /\ completed = <<>>
    /\ touched = <<>>
    /\ expired = {}
    /\ pendingLock = 0
    /\ hung = FALSE
    /\ future = [c \in DCallers |-> NoFuture]
    /\ dpc = [c \in DCallers |-> "idle"]
    /\ ckey = [c \in DCallers |-> NoKey]
    /\ cuse = [c \in DCallers |-> FALSE]
    /\ cwait = [c \in DCallers |-> 0]
    /\ hits = 0
    /\ misses = 0
    /\ errors = 0
    /\ invocations = 0
    /\ opId = [c \in DCallers |-> 0]
    /\ calls = 0
    /\ lastReturn = [key |-> NoKey, use_cache |-> FALSE,
                     kind |-> "none", val |-> 0]

\* The call of caller c returns or raises `out` to its caller; the
\* coroutine's locals are gone.
Deliver(c, key, use_cache, out) ==
    /\ dpc' = [dpc EXCEPT ![c] = "idle"]
    /\ ckey' = [ckey EXCEPT ![c] = NoKey]
    /\ cuse' = [cuse EXCEPT ![c] = FALSE]
    /\ cwait' = [cwait EXCEPT ![c] = 0]
    /\ opId' = [opId EXCEPT ![c] = 0]
    /\ lastReturn' = [key |-> key, use_cache |-> use_cache,
                      kind |-> out.kind, val |-> out.val]

\* A hit that leaves the entry where it is.
MoveToEndNot(seq, key) == seq

\* Line 135: self._completed.move_to_end(key).
MoveToEnd(seq, key) ==
    Append(DropKey(seq, key),
           seq[CHOOSE i \in DOMAIN seq : seq[i].key = key])

\* Lines 129-136: the key is in the completed cache.
CacheHit(c, key) ==
    /\ hits' = hits + 1
    /\ completed' = MoveToEnd(completed, key)
    /\ touched' = Touch(touched, key)
    /\ UNCHANGED expired
    /\ Deliver(c, key, TRUE, [kind |-> "result", val |-> CompletedOf(key).result])
    /\ UNCHANGED <<pending, pendingLock, hung, future, misses, errors,
                   invocations>>

\* `with self._pending_lock:` while a suspended coroutine holds the lock:
\* threading.Lock.acquire() blocks the event loop thread, the only thread
\* that could ever release it.
BlockOnPendingLock(c, key, use_cache) ==
    /\ hung' = TRUE
    /\ dpc' = [dpc EXCEPT ![c] = "blocked"]
    /\ ckey' = [ckey EXCEPT ![c] = key]
    /\ cuse' = [cuse EXCEPT ![c] = use_cache]
    /\ UNCHANGED <<pending, completed, touched, expired, pendingLock, future, cwait, hits,
                   misses, errors, invocations, opId, lastReturn>>

\* Lines 139-146: the key is pending and its future is not done: the caller
\* awaits the future inside the `with` block, so it keeps the lock.
JoinPending(c, key, use_cache) ==
    /\ hits' = hits + 1
    /\ cwait' = [cwait EXCEPT ![c] = PendingOf(key).future]
    /\ pendingLock' = c
    /\ dpc' = [dpc EXCEPT ![c] = "waiting"]
    /\ ckey' = [ckey EXCEPT ![c] = key]
    /\ cuse' = [cuse EXCEPT ![c] = use_cache]
    /\ UNCHANGED <<pending, completed, touched, expired, hung, future, misses, errors,
                   invocations, opId, lastReturn>>

\* A registration that evicts nothing.
RegisterPendingNoEviction(p, key, c) == Append(p, [key |-> key, future |-> c])

\* Lines 157-166: register the pending record, evicting the oldest one when
\* the pending set is full.
RegisterPending(p, key, c) ==
    Append(IF Len(p) >= max_pending THEN Tail(p) ELSE p,
           [key |-> key, future |-> c])

\* Lines 147-169: a miss. (A pending record whose future is done counts a hit,
\* is deleted, and the call goes on as a miss.)  The call suspends in
\* `await func()`.
RunOperation(c, key, use_cache) ==
    /\ hits' = IF InPending(key) THEN hits + 1 ELSE hits
    /\ misses' = misses + 1
    /\ future' = [future EXCEPT ![c] = [state |-> "pending", val |-> 0]]
    /\ pending' = RegisterPending(DropKey(pending, key), key, c)
    /\ invocations' = invocations + 1
    /\ opId' = [opId EXCEPT ![c] = invocations + 1]
    /\ dpc' = [dpc EXCEPT ![c] = "running"]
    /\ ckey' = [ckey EXCEPT ![c] = key]
    /\ cuse' = [cuse EXCEPT ![c] = use_cache]
    /\ UNCHANGED <<completed, touched, expired, pendingLock, hung, errors, cwait, lastReturn>>

\* execute(endpoint, params, func, use_cache) up to its first suspension.
\* Callers are interchangeable coroutines: a new call is given to the first
\* one that has no call under way.
ExecuteStart(c, endpoint, params, use_cache) ==
    LET key == generate_key(endpoint, params) IN
    /\ ~hung
    /\ dpc[c] = "idle"
    /\ \A d \in DCallers : d < c => dpc[d] # "idle"
    /\ calls < MaxCalls
    /\ calls' = calls + 1
    /\ IF use_cache /\ InCompleted(key)
       THEN CacheHit(c, key)
       ELSE IF pendingLock # 0
       THEN BlockOnPendingLock(c, key, use_cache)
       ELSE IF InPending(key) /\ future[PendingOf(key).future].state = "pending"
       THEN JoinPending(c, key, use_cache)
       ELSE RunOperation(c, key, use_cache)

\* A full cache that evicts nothing.
PopOldestNever(seq) == seq

\* Lines 174-176: a full cache drops its first entry.
PopOldest(seq) == IF Len(seq) >= max_cached THEN Tail(seq) ELSE seq

\* A store that is skipped.
StoreCompletedSkipped(seq, key, result) == seq

\* Lines 172-177: store a result, dropping the first (least recently used)
\* entry when the cache is full; assigning an existing key keeps its place.
StoreCompleted(seq, key, result) ==
    LET s == PopOldest(seq) IN
    IF \E i \in DOMAIN s : s[i].key = key
    THEN [i \in DOMAIN s |->
            IF s[i].key = key THEN [key |-> key, result |-> result] ELSE s[i]]
    ELSE Append(s, [key |-> key, result |-> result])

\* A finally block that forgets the pending record.
RemovePendingNever(p, key) == p

\* Lines 191-193: `if key in self._pending: del self._pending[key]`.
RemovePending(p, key) == DropKey(p, key)

\* The finally block, then the return or raise of `out`; fut is the state the
\* try or except block left the call's future in.  With the lock held by a
\* waiting duplicate the thread blocks at line 191 and nothing is delivered.
Finally(c, fut, out) ==
    IF pendingLock # 0
    THEN /\ hung' = TRUE
         /\ dpc' = [dpc EXCEPT ![c] = "blocked"]
         /\ future' = [future EXCEPT ![c] = fut]
         /\ UNCHANGED <<pending, ckey, cuse, cwait, opId, lastReturn>>
    ELSE /\ pending' = RemovePending(pending, ckey[c])
         /\ future' = [future EXCEPT ![c] = NoFuture]
         /\ Deliver(c, ckey[c], cuse[c], out)
         /\ UNCHANGED hung

InvalidState == [kind |-> "invalid_state", val |-> 0]

\* func() returned (lines 169-181).  future.set_result on a cancelled future
\* raises InvalidStateError, which the except block counts and answers with a
\* set_exception that raises InvalidStateError again.
OperationSucceeds(c) ==
    /\ ~hung
    /\ dpc[c] = "running"
    /\ completed' = IF cuse[c]
                    THEN StoreCompleted(completed, ckey[c], opId[c])
                    ELSE completed
    /\ touched' = IF cuse[c] /\ ckey[c] \notin CachedKeys(PopOldest(completed))
                  THEN Touch(touched, ckey[c])
                  ELSE touched
    /\ expired' = IF cuse[c]
                  THEN (expired \ {ckey[c]}) \cap CachedKeys(PopOldest(completed))
                  ELSE expired
    /\ IF future[c].state = "pending"
       THEN /\ errors' = errors
            /\ Finally(c, [state |-> "result", val |-> opId[c]],
                       [kind |-> "result", val |-> opId[c]])
       ELSE /\ errors' = errors + 1
            /\ Finally(c, future[c], InvalidState)
    /\ UNCHANGED <<pendingLock, hits, misses, invocations, calls>>

\* An except block that stores the failed call in the cache.
AfterFailureStored(seq, key, result) == StoreCompleted(seq, key, result)

\* Lines 183-187: the except block stores nothing in the completed cache.
AfterFailure(seq, key, result) == seq

\* func() raised (lines 183-187).
OperationFails(c) ==
    /\ ~hung
    /\ dpc[c] = "running"
    /\ errors' = errors + 1
    /\ completed' = AfterFailure(completed, ckey[c], opId[c])
    /\ IF future[c].state = "pending"
       THEN Finally(c, [state |-> "exception", val |-> opId[c]],
                    [kind |-> "error", val |-> opId[c]])
       ELSE Finally(c, future[c], InvalidState)
    /\ UNCHANGED <<touched, expired, pendingLock, hits, misses, invocations, calls>>

\* The task running the operation is cancelled in `await func()`:
\* CancelledError is no Exception, so only the finally block runs and the
\* future is never settled.
CancelExecutor(c) ==
    /\ ~hung
    /\ dpc[c] = "running"
    /\ Finally(c, future[c], [kind |-> "cancelled", val |-> 0])
    /\ UNCHANGED <<completed, touched, expired, pendingLock, hits, misses, errors,
                   invocations, calls>>

\* The task of a waiting duplicate is cancelled: Task.cancel() cancels the
\* future the task awaits, which is the shared future itself.
CancelWaiter(c) ==
    /\ ~hung
    /\ dpc[c] = "waiting"
    /\ future[cwait[c]].state = "pending"
    /\ future' = [future EXCEPT ![cwait[c]] = [state |-> "cancelled", val |-> 0]]
    /\ UNCHANGED <<pending, completed, touched, expired, pendingLock, hung, dpc, ckey, cuse,
                   cwait, hits, misses, errors, invocations, opId, calls,
                   lastReturn>>

\* What `await pending.future` hands to the waiter once the future is done.
FutureOutcome(f) ==
    CASE f.state = "result" -> [kind |-> "result", val |-> f.val]
      [] f.state = "exception" -> [kind |-> "error", val |-> f.val]
      [] OTHER -> [kind |-> "cancelled", val |-> 0]

\* Line 146 resumes: the awaited future is done; leaving the `with` block
\* releases the lock.
WaiterResumes(c) ==
    /\ ~hung
    /\ dpc[c] = "waiting"
    /\ future[cwait[c]].state # "pending"
    /\ pendingLock' = 0
    /\ Deliver(c, ckey[c], cuse[c], FutureOutcome(future[cwait[c]]))
    /\ UNCHANGED <<pending, completed, touched, expired, hung, future, hits, misses, errors,
                   invocations, calls>>

\* More than ttl_seconds go by: every result in the cache is now older than
\* the deduplication window.
TtlPasses ==
    /\ ~hung
    /\ expired # CachedKeys(completed)
    /\ expired' = CachedKeys(completed)
    /\ UNCHANGED <<pending, completed, touched, pendingLock, hung, future, dpc,
                   ckey, cuse, cwait, hits, misses, errors, invocations, opId,
                   calls, lastReturn>>

\* Lines 202-215 of cleanup_expired: the entries to remove.  The cutoff is
\* computed and not used: an entry is removed when the cache holds more than
\* twice max_cached entries, whatever its age.
KeysToRemove(seq) ==
    {seq[i].key : i \in {j \in DOMAIN seq : Len(seq) > max_cached * 2}}

\* cleanup_expired(): returns the number of entries removed.
CleanupExpired ==
    /\ ~hung
    /\ completed' = SelectSeq(completed,
                              LAMBDA r : r.key \notin KeysToRemove(completed))
    /\ expired' = expired \ KeysToRemove(completed)
    /\ lastReturn' = [key |-> NoKey, use_cache |-> FALSE, kind |-> "removed",
                      val |-> Cardinality(KeysToRemove(completed))]
    /\ UNCHANGED <<pending, touched, pendingLock, hung, future, dpc, ckey, cuse,
                   cwait, hits, misses, errors, invocations, opId, calls>>

\* The callers whose futures self._pending holds.
PendingFutures == {pending[i].future : i \in DOMAIN pending}

\* Lines 225-232, 240-243: clear_pending(), or clear_all() which calls
\* clear_pending() and then clear_completed().  Every pending future that is
\* not done is cancelled, the pending records are dropped and the number of
\* entries cleared is returned.  With the lock held by a waiting duplicate
\* the thread blocks at line 225.
ClearPending(all) ==
    /\ ~hung
    /\ IF pendingLock # 0
       THEN /\ hung' = TRUE
            /\ UNCHANGED <<pending, completed, expired, future, lastReturn>>
       ELSE /\ future' = [c \in DCallers |->
                             IF c \in PendingFutures /\ future[c].state = "pending"
                             THEN [state |-> "cancelled", val |-> 0]
                             ELSE future[c]]
            /\ pending' = <<>>
            /\ completed' = IF all THEN <<>> ELSE completed
            /\ expired' = IF all THEN {} ELSE expired
            /\ lastReturn' = [key |-> NoKey, use_cache |-> FALSE,
                              kind |-> "cleared",
                              val |-> Len(pending)
                                      + (IF all THEN Len(completed) ELSE 0)]
            /\ UNCHANGED hung
    /\ UNCHANGED <<touched, pendingLock, dpc, ckey, cuse, cwait, hits, misses,
                   errors, invocations, opId, calls>>

(***************************************************************************)
(*                      RETRY WITH EXPONENTIAL BACKOFF                     *)
(***************************************************************************)

\* Largest RetryConfig(max_retries=...) the model configures.
MaxRetries == 2

\* The exceptions func() raises: their class and, for an API error, its code.
Errors ==
    {[cls |-> "SecureNotifyConnectionError", code |-> "none"],
     [cls |-> "SecureNotifyTimeoutError", code |-> "none"],
     [cls |-> "SecureNotifyAuthenticationError", code |-> "none"],
     [cls |-> "SecureNotifyApiError", code |-> "SERVICE_UNAVAILABLE"],
     [cls |-> "SecureNotifyApiError", code |-> "NOT_FOUND"],
     [cls |-> "SecureNotifyApiError", code |-> "VALIDATION_ERROR"],
     [cls |-> "SecureNotifyApiError", code |-> "CHANNEL_EXISTS"],
     [cls |-> "SecureNotifyApiError", code |-> "AUTH_FAILED"],
     [cls |-> "SecureNotifyRateLimitError", code |-> "RATE_LIMIT_EXCEEDED"],
     [cls |-> "ValueError", code |-> "none"]}

\* isinstance(e, cls) for the classes of types/errors.py.
IsInstance(e, cls) ==
    \/ e.cls = cls
    \/ cls = "SecureNotifyApiError" /\ e.cls = "SecureNotifyRateLimitError"
    \/ cls = "SecureNotifyError" /\ e.cls # "ValueError"

RETRYABLE_ERRORS ==
    {"RATE_LIMIT_EXCEEDED", "INTERNAL_ERROR", "BAD_GATEWAY",
     "SERVICE_UNAVAILABLE", "GATEWAY_TIMEOUT", "NETWORK_ERROR",
     "TIMEOUT_ERROR", "CONNECTION_ERROR", "SSE_CONNECTION_ERROR",
     "SSE_HEARTBEAT_TIMEOUT"}

NON_RETRYABLE_ERRORS ==
    {"AUTH_REQUIRED", "AUTH_FAILED", "FORBIDDEN", "NOT_FOUND",
     "CHANNEL_EXISTS", "KEY_EXPIRED", "RESOURCE_EXISTS", "VALIDATION_ERROR",
     "MESSAGE_TOO_LARGE"}

\* An API error that always counts as retryable.
is_retryable_always(e) == TRUE

\* SecureNotifyApiError.is_retryable
is_retryable(e) == e.code \in RETRYABLE_ERRORS

\* A configuration that retries errors of every kind.
retryable_exceptions_open ==
    {"SecureNotifyConnectionError", "SecureNotifyTimeoutError",
     "SecureNotifyAuthenticationError", "ValueError"}

\* RetryConfig defaults: retryable_exceptions, non_retryable_exceptions.
retryable_exceptions ==
    {"SecureNotifyConnectionError", "SecureNotifyTimeoutError"}

non_retryable_exceptions == {"SecureNotifyApiError"}

\* The delay settings of the configurations, in units of a quarter second:
\* no delay at all, 1 s doubling up to 4 s, 5 s tripling up to 15 s.
DelaySettings ==
    {[initial_delay |-> 0, backoff_multiplier |-> 2, max_delay |-> 120],
     [initial_delay |-> 4, backoff_multiplier |-> 2, max_delay |-> 16],
     [initial_delay |-> 20, backoff_multiplier |-> 3, max_delay |-> 60]}

RetryConfigs ==
    {[max_retries |-> n, jitter |-> j, initial_delay |-> d.initial_delay,
      backoff_multiplier |-> d.backoff_multiplier, max_delay |-> d.max_delay] :
        n \in 0..MaxRetries, j \in BOOLEAN, d \in DelaySettings}

VARIABLES
    config,          \* the RetryConfig of the call
    rpc,             \* where with_retry stands
    attempt,         \* the loop variable of with_retry
    funcCalls,       \* number of invocations of func()
    last_exception,  \* the exception of the last failed invocation
    raised,          \* the exception with_retry raised
    delay,           \* the delay with_retry sleeps
    onlyTransient    \* every invocation so far failed with a connection or
                     \* timeout error

rvars == <<config, rpc, attempt, funcCalls, last_exception, raised, delay,
           onlyTransient>>

NoError == [cls |-> "none", code |-> "none", id |-> 0]

\* DEFAULT_RETRY_CONFIG = RetryConfig(), delays in quarter seconds.
DEFAULT_RETRY_CONFIG ==
    [max_retries |-> 3, jitter |-> TRUE, initial_delay |-> 4,
     backoff_multiplier |-> 2, max_delay |-> 120]

\* with_retry(func, cfg) is about to be called.
RetryCall(cfg) ==
    /\ config = cfg
    /\ rpc = "start"
    /\ attempt = 0
    /\ funcCalls = 0
    /\ last_exception = NoError
    /\ raised = NoError
    /\ delay = 0
    /\ onlyTransient = TRUE

RInit == \E cfg \in RetryConfigs : RetryCall(cfg)

\* A `raise` that raises the error of the attempt before.
ReraisePrevious(e, previous) == IF previous = NoError THEN e ELSE previous

\* Line 148: the bare `raise` re-raises the exception being handled.
Reraise(e, previous) == e

\* A retry budget that is one short.
should_retry_one_short(cfg, exception, n) ==
    IF n + 1 >= cfg.max_retries THEN FALSE
    ELSE IF \E t \in non_retryable_exceptions : IsInstance(exception, t)
    THEN IF IsInstance(exception, "SecureNotifyApiError")
         THEN is_retryable(exception)
         ELSE FALSE
    ELSE \E t \in retryable_exceptions : IsInstance(exception, t)

\* RetryConfig.should_retry(exception, attempt)
should_retry(cfg, exception, n) ==
    IF n >= cfg.max_retries THEN FALSE
    ELSE IF \E t \in non_retryable_exceptions : IsInstance(exception, t)
    THEN IF IsInstance(exception, "SecureNotifyApiError")
         THEN is_retryable(exception)
         ELSE FALSE
    ELSE \E t \in retryable_exceptions : IsInstance(exception, t)

RECURSIVE Pow(_, _)
Pow(b, n) == IF n = 0 THEN 1 ELSE b * Pow(b, n - 1)

\* sys.float_info.max_exp: a float power of 2.0**FloatMaxExp or more does not
\* exist, and `**` raises OverflowError instead of returning it.
FloatMaxExp == 1024

\* 1000 * log2(b), rounded down, for the multipliers of DelaySettings.
Log2Milli(b) == CASE b = 2 -> 1000 [] b = 3 -> 1584 [] OTHER -> 0

\* Line 109: self.backoff_multiplier**attempt raises OverflowError.
PowOverflows(b, n) == n * Log2Milli(b) >= FloatMaxExp * 1000

RECURSIVE PowUpTo(_, _, _, _)
\* min(acc * b**n, limit), without computing powers beyond the limit.
PowUpTo(b, n, acc, limit) ==
    IF n = 0 \/ acc >= limit THEN Min(acc, limit)
    ELSE PowUpTo(b, n - 1, acc * b, limit)

\* get_delay before the jitter: min(initial_delay * multiplier**attempt, max_delay)
BackoffDelay(cfg, n) ==
    Min(cfg.initial_delay * PowUpTo(cfg.backoff_multiplier, n, 1, cfg.max_delay + 1),
        cfg.max_delay)

\* _get_crypto_jitter(range_val): a value of [-range_val, range_val]; the
\* two ends and the middle stand for the interval.
CryptoJitter(range_val) == {0 - range_val, 0, range_val}

\* RetryConfig.get_delay(attempt): the delays it can return.
get_delay(cfg, n) ==
    LET d == BackoffDelay(cfg, n) IN
    IF cfg.jitter
    THEN {Max(0, d + j) : j \in CryptoJitter(d \div 4)}
    ELSE {Max(0, d)}

\* `for attempt in range(config.max_retries + 1)`: the next iteration, or the
\* `raise last_exception` after the loop.
NextAttempt ==
    IF attempt + 1 < config.max_retries + 1
    THEN /\ attempt' = attempt + 1
         /\ rpc' = "calling"
         /\ funcCalls' = funcCalls + 1
         /\ raised' = raised
    ELSE /\ attempt' = attempt
         /\ rpc' = "raised"
         /\ funcCalls' = funcCalls
         /\ raised' = last_exception'

\* with_retry is called: the first iteration invokes func().
RetryStart ==
    /\ rpc = "start"
    /\ rpc' = "calling"
    /\ funcCalls' = funcCalls + 1
    /\ UNCHANGED <<config, attempt, last_exception, raised, delay, onlyTransient>>

\* `return await func()`: func() returned.
FuncReturns ==
    /\ rpc = "calling"
    /\ rpc' = "returned"
    /\ onlyTransient' = FALSE
    /\ UNCHANGED <<config, attempt, funcCalls, last_exception, raised, delay>>

\* The OverflowError of line 109.
OverflowError == [cls |-> "OverflowError", code |-> "none", id |-> 0]

\* func() raised e: lines 144-152.
FuncRaises(e) ==
    LET exc == [cls |-> e.cls, code |-> e.code, id |-> funcCalls] IN
    /\ rpc = "calling"
    /\ last_exception' = exc
    /\ onlyTransient' = (onlyTransient /\ e.cls \in retryable_exceptions)
    /\ IF ~should_retry(config, exc, attempt)
       THEN /\ rpc' = "raised"
            /\ raised' = Reraise(exc, last_exception)
            /\ UNCHANGED <<attempt, funcCalls, delay>>
       ELSE IF PowOverflows(config.backoff_multiplier, attempt)
       THEN /\ rpc' = "raised"
            /\ raised' = OverflowError
            /\ UNCHANGED <<attempt, funcCalls, delay>>
       ELSE \E d \in get_delay(config, attempt) :
              /\ delay' = d
              /\ IF d > 0
                 THEN /\ rpc' = "sleeping"
                      /\ UNCHANGED <<attempt, funcCalls, raised>>
                 ELSE NextAttempt
    /\ UNCHANGED config

\* asyncio.sleep(delay) is over.
SleepOver ==
    /\ rpc = "sleeping"
    /\ NextAttempt
    /\ UNCHANGED <<config, last_exception, delay, onlyTransient>>

\* Largest of the small attempt numbers get_delay is called with.
MaxAttempt == 3

\* The first attempt number for which the power of multiplier b overflows.
OverflowAt(b) ==
    CHOOSE n \in 1..FloatMaxExp : PowOverflows(b, n) /\ ~PowOverflows(b, n - 1)

\* The attempt numbers get_delay is called with: the first ones, and the
\* ones around the largest power a float can hold.
DelayAttempts ==
    (0..MaxAttempt) \cup {OverflowAt(2) - 1, OverflowAt(2)}
                   \cup {OverflowAt(3) - 1, OverflowAt(3)}

\* config.get_delay(n) is about to be called.
DelayCall(cfg, n) ==
    /\ config = cfg
    /\ rpc = "get_delay"
    /\ attempt = n
    /\ funcCalls = 0
    /\ last_exception = NoError
    /\ raised = NoError
    /\ delay = 0
    /\ onlyTransient = TRUE

\* RetryConfig.get_delay(attempt) returns a delay or raises OverflowError.
GetDelay ==
    /\ rpc = "get_delay"
    /\ IF PowOverflows(config.backoff_multiplier, attempt)
       THEN /\ rpc' = "overflow_error"
            /\ raised' = OverflowError
            /\ UNCHANGED delay
       ELSE /\ rpc' = "delay_returned"
            /\ delay' \in get_delay(config, attempt)
            /\ UNCHANGED raised
    /\ UNCHANGED <<config, attempt, funcCalls, last_exception, onlyTransient>>

(***************************************************************************)
(*                      TOKEN BUCKET RATE LIMITER                          *)
(***************************************************************************)

\* Number of coroutines that call acquire().
NumAcquirers == 2

\* The clock runs from 0 to MaxTime ticks.
MaxTime == 8

LCallers == 1..NumAcquirers

\* RateLimiter(max_tokens, refill_rate, refill_interval), the interval in
\* clock ticks (a multiple of the rate, so that wait times are whole ticks).
LimiterConfigs ==
    {[max_tokens |-> 1, refill_rate |-> 1, refill_interval |-> 2],
     [max_tokens |-> 2, refill_rate |-> 2, refill_interval |-> 4],
     [max_tokens |-> 2, refill_rate |-> 1, refill_interval |-> 3]}

\* timeout=None, the default of acquire().
NoTimeout == 0 - 1

\* The timeout arguments of acquire(): None, 0 and two ticks.
Timeouts == {NoTimeout, 0, 2}

VARIABLES
    limiter,      \* self.max_tokens, self.refill_rate, self.refill_interval
    tokens,       \* self.tokens
    last_refill,  \* self.last_refill
    now,          \* time.time()
    lockOwner,    \* the coroutine inside `async with self._lock`, 0 = none
    lockQueue,    \* the coroutines waiting for self._lock, in arrival order
    lpc,          \* where each caller's acquire() stands
    ltimeout,     \* the timeout argument of a caller waiting for the lock
    wakeAt,       \* when the sleep of a caller's acquire() is due to end
    winStart,     \* start of the observed time window
    winCount,     \* acquire() calls that returned True since winStart
    acquired,     \* what the acquire() call that returned last returned
    returned,     \* acquire() calls that have returned, counted up to
                  \* max_tokens + 1
    before        \* self.tokens and self.last_refill as the call that is
                  \* asleep found them

lvars == <<limiter, tokens, last_refill, now, lockOwner, lockQueue, lpc,
           ltimeout, wakeAt, winStart, winCount, acquired, returned, before>>

\* Nobody is asleep in acquire().
NobodyAsleep == [tokens |-> 0, last_refill |-> 0]

\* RateLimiter.__init__ at time 0; the window observed starts at w.
LimiterNew(cfg, w) ==
    /\ limiter = cfg
    /\ tokens = cfg.max_tokens
    /\ last_refill = 0
    /\ now = 0
    /\ lockOwner = 0
    /\ lockQueue = <<>>
    /\ lpc = [c \in LCallers |-> "idle"]
    /\ ltimeout = [c \in LCallers |-> NoTimeout]
    /\ wakeAt = [c \in LCallers |-> 0]
    /\ winStart = w
    /\ winCount = 0
    /\ acquired = "none"
    /\ returned = 0
    /\ before = NobodyAsleep

LInit == \E cfg \in LimiterConfigs, w \in 0..MaxTime : LimiterNew(cfg, w)

\* A refill that forgets the capacity.
RefilledTokensUncapped(t, elapsed) ==
    IF elapsed >= limiter.refill_interval
    THEN t + (elapsed \div limiter.refill_interval) * limiter.refill_rate
    ELSE t

\* Lines 49-56: the token count after the lazy refill.
RefilledTokens(t, elapsed) ==
    IF elapsed >= limiter.refill_interval
    THEN Min(limiter.max_tokens,
             t + (elapsed \div limiter.refill_interval) * limiter.refill_rate)
    ELSE t

\* Line 56: the refill sets last_refill to now.
RefilledAt(elapsed) ==
    IF elapsed >= limiter.refill_interval THEN now ELSE last_refill

\* Lines 68-70: wait_time for the token count t.
WaitTime(t) == ((1 - t) * limiter.refill_interval) \div limiter.refill_rate

\* A timeout that is not looked at.
WaitTooLongNever(timeout, wait_time) == FALSE

\* Lines 72-73: `if timeout is not None and wait_time > timeout`.
WaitTooLong(timeout, wait_time) == timeout # NoTimeout /\ wait_time > timeout

\* acquire() returns to caller c and releases the lock.
AcquireReturns(c, ok) ==
    /\ lpc' = [lpc EXCEPT ![c] = "idle"]
    /\ ltimeout' = [ltimeout EXCEPT ![c] = NoTimeout]
    /\ lockOwner' = 0
    /\ winCount' = IF ok /\ now >= winStart THEN winCount + 1 ELSE winCount
    /\ acquired' = IF ok THEN "True" ELSE "False"
    /\ returned' = Min(returned + 1, limiter.max_tokens + 1)
    /\ before' = NobodyAsleep

\* Lines 48-75: the body of acquire() inside the lock, up to its return or to
\* the sleep.
AcquireBody(c, timeout) ==
    LET t == RefilledTokens(tokens, now - last_refill) IN
    /\ last_refill' = RefilledAt(now - last_refill)
    /\ IF t >= 1
       THEN /\ tokens' = t - 1
            /\ AcquireReturns(c, TRUE)
            /\ UNCHANGED wakeAt
       ELSE IF timeout # NoTimeout /\ timeout <= 0
       THEN /\ tokens' = t
            /\ AcquireReturns(c, FALSE)
            /\ UNCHANGED wakeAt
       ELSE IF WaitTooLong(timeout, WaitTime(t))
       THEN /\ tokens' = t
            /\ AcquireReturns(c, FALSE)
            /\ UNCHANGED wakeAt
       ELSE /\ tokens' = t
            /\ lpc' = [lpc EXCEPT ![c] = "sleeping"]
            /\ ltimeout' = [ltimeout EXCEPT ![c] = NoTimeout]
            /\ wakeAt' = [wakeAt EXCEPT ![c] = now + WaitTime(t)]
            /\ lockOwner' = c
            /\ before' = [tokens |-> tokens, last_refill |-> last_refill]
            /\ UNCHANGED <<winCount, acquired, returned>>

\* acquire(timeout) is called: with the lock free and nobody waiting for it
\* the body runs at once, otherwise the caller queues for the lock.
Acquire(c, timeout) ==
    /\ lpc[c] = "idle"
    /\ IF lockOwner = 0 /\ lockQueue = <<>>
       THEN /\ AcquireBody(c, timeout)
            /\ UNCHANGED lockQueue
       ELSE /\ lockQueue' = Append(lockQueue, c)
            /\ lpc' = [lpc EXCEPT ![c] = "queued"]
            /\ ltimeout' = [ltimeout EXCEPT ![c] = timeout]
            /\ UNCHANGED <<tokens, last_refill, lockOwner, wakeAt, winCount,
                           acquired, returned, before>>
    /\ UNCHANGED <<limiter, now, winStart>>

\* The lock is released to the first waiting caller, whose body runs.
LockGranted(c) ==
    /\ lockOwner = 0
    /\ lockQueue # <<>>
    /\ c = Head(lockQueue)
    /\ lockQueue' = Tail(lockQueue)
    /\ AcquireBody(c, ltimeout[c])
    /\ UNCHANGED <<limiter, now, winStart>>

\* Lines 75-77: asyncio.sleep(wait_time) is over (at wakeAt or later).
SleepEnds(c) ==
    /\ lpc[c] = "sleeping"
    /\ now >= wakeAt[c]
    /\ tokens' = tokens - 1
    /\ wakeAt' = [wakeAt EXCEPT ![c] = 0]
    /\ AcquireReturns(c, TRUE)
    /\ UNCHANGED <<limiter, last_refill, now, lockQueue, winStart>>

\* The task of caller c is cancelled while its acquire() sleeps at line 75:
\* CancelledError leaves `async with self._lock` (47), which releases the
\* lock; line 76 is not reached.
CancelSleeping(c) ==
    /\ lpc[c] = "sleeping"
    /\ lpc' = [lpc EXCEPT ![c] = "idle"]
    /\ wakeAt' = [wakeAt EXCEPT ![c] = 0]
    /\ lockOwner' = 0
    /\ before' = NobodyAsleep
    /\ UNCHANGED <<limiter, tokens, last_refill, now, lockQueue, ltimeout,
                   winStart, winCount, acquired, returned>>

\* The task of caller c is cancelled while it waits for the lock at line 47:
\* asyncio.Lock.acquire takes the waiter out of the queue.
CancelQueued(c) ==
    /\ lpc[c] = "queued"
    /\ lpc' = [lpc EXCEPT ![c] = "idle"]
    /\ ltimeout' = [ltimeout EXCEPT ![c] = NoTimeout]
    /\ lockQueue' = SelectSeq(lockQueue, LAMBDA x : x # c)
    /\ UNCHANGED <<limiter, tokens, last_refill, now, lockOwner, wakeAt,
                   winStart, winCount, acquired, returned, before>>

\* The clock advances.
Tick ==
    /\ now < MaxTime
    /\ now' = now + 1
    /\ UNCHANGED <<limiter, tokens, last_refill, lockOwner, lockQueue, lpc,
                   ltimeout, wakeAt, winStart, winCount, acquired, returned,
                   before>>

(***************************************************************************)
(*                     SSE CLIENT: CONNECT AND RECONNECT                   *)
(***************************************************************************)

\* SSEClient(max_reconnect_attempts=...).
max_reconnect_attempts == 2

\* Listener tasks nested in one another at most: every reconnect that
\* succeeds starts the next listener inside the one that reconnected.
MaxDepth == 2

\* Frames dispatched in one run at most.
MaxFrames == 2

\* The id lines of the frames: none, or an id.
EventIds == {"None", "7", "8"}

\* self._listener_task refers to a task that is over.
FinishedTask == 0 - 1

VARIABLES
    state,          \* self._state
    stop_event,     \* self._stop_event: "None", or the event "clear" / "set"
    client,         \* self._client is not None
    listener_task,  \* self._listener_task: 0 = None, FinishedTask, or the
                    \* position of the task in listeners
    listeners,      \* the listener tasks not yet awaited to their end, each
                    \* awaited by the one before it, the first by connect()
    connectPc,      \* where the user's connect() call stands
    disconnectPc,   \* where the user's disconnect() call stands
    reopens,        \* connect() calls made by _reconnect so far
    failRun,        \* failed reopens in a row
    reopenedAfterDisconnect, \* _reconnect called connect() after disconnect()
    last_event_id,  \* self._last_event_id
    lastSeenId,     \* the id of the last dispatched frame that carried one
    handlerLog      \* for each frame dispatched: did the handler raise?

svars == <<state, stop_event, client, listener_task, listeners, connectPc,
           disconnectPc, reopens, failRun, reopenedAfterDisconnect,
           last_event_id, lastSeenId, handlerLog>>

\* SSEClient.__init__.
SInit ==
    /\ state = "disconnected"
    /\ stop_event = "None"
    /\ client = FALSE
    /\ listener_task = 0
    /\ listeners = <<>>
    /\ connectPc = "idle"
    /\ disconnectPc = "idle"
    /\ reopens = 0
    /\ failRun = 0
    /\ reopenedAfterDisconnect = FALSE
    /\ last_event_id = "None"
    /\ lastSeenId = "None"
    /\ handlerLog = <<>>

\* A listener task: where it stands, the attempt of its reconnect loop, and
\* whether Task.cancel() was called on it.
Listener(pc, n) == [pc |-> pc, attempt |-> n, cancelling |-> FALSE]

Done(l) == l.pc \in {"returned", "raised", "cancelled"}

\* A request in flight can still be answered: its client has not been closed.
ClientUsable == client /\ disconnectPc # "closing"

\* The listener task i can take a step of its own.
Runs(i, pc) ==
    /\ i = Len(listeners)
    /\ listeners[i].pc = pc
    /\ ~listeners[i].cancelling

SetListener(i, l) == [listeners EXCEPT ![i] = l]

\* CHANNEL_ID_PATTERN allows this many characters.
ChannelIdMaxLength == 256

\* The characters of [a-zA-Z0-9_-], one of each kind.
ChannelIdChars == {"a", "Z", "7", "_", "-"}

\* A newline character.
LF == "\n"

\* Channel identifiers, each a sequence of runs <<character, length>>.
ChannelIds ==
    {<<>>,
     <<<<"a", 1>>>>,
     <<<<"Z", 1>>, <<"7", 1>>, <<"_", 1>>, <<"-", 1>>>>,
     <<<<"a", ChannelIdMaxLength>>>>,
     <<<<"a", ChannelIdMaxLength + 1>>>>,
     <<<<"a", ChannelIdMaxLength - 1>>, <<"-", 1>>, <<"7", 1>>>>,
     <<<<"a", 4>>, <<" ", 1>>, <<"Z", 7>>>>,
     <<<<"a", 4>>, <<"@", 1>>, <<"Z", 7>>>>,
     <<<<"a", 4>>, <<".", 1>>>>,
     <<<<":", 1>>, <<"a", 4>>>>,
     <<<<LF, 1>>>>,
     <<<<"a", 4>>, <<LF, 1>>>>,
     <<<<"a", 4>>, <<LF, 2>>>>,
     <<<<"a", 4>>, <<LF, 1>>, <<"Z", 1>>>>,
     <<<<"a", ChannelIdMaxLength>>, <<LF, 1>>>>}

RECURSIVE RunsLength(_)
\* len(channel_id)
RunsLength(runs) ==
    IF runs = <<>> THEN 0 ELSE Head(runs)[2] + RunsLength(Tail(runs))

\* The text without its last character.
DropLast(runs) ==
    LET n == Len(runs) IN
    IF runs[n][2] = 1
    THEN SubSeq(runs, 1, n - 1)
    ELSE [runs EXCEPT ![n] = <<runs[n][1], runs[n][2] - 1>>]

\* ^[a-zA-Z0-9_-]{1,256}$ matched against the whole of the text.
FullMatch(runs) ==
    /\ \A i \in DOMAIN runs : runs[i][1] \in ChannelIdChars
    /\ RunsLength(runs) >= 1
    /\ RunsLength(runs) <= ChannelIdMaxLength

\* CHANNEL_ID_PATTERN.match(channel_id): `$` matches at the end of the text
\* and also just before a newline that ends the text.
PatternMatch(runs) ==
    \/ FullMatch(runs)
    \/ /\ runs # <<>>
       /\ runs[Len(runs)][1] = LF
       /\ FullMatch(DropLast(runs))

\* validate_channel_id(channel_id)
validate_channel_id(channel_id) ==
    IF channel_id = <<>> THEN FALSE ELSE PatternMatch(channel_id)

\* Lines 113-120: connect(channel) up to the opening of the stream.
Connect(channel) ==
    /\ connectPc = "idle"
    /\ IF validate_channel_id(channel)
       THEN /\ stop_event' = "clear"
            /\ state' = "connecting"
            /\ client' = TRUE
            /\ connectPc' = "opening"
       ELSE /\ connectPc' = "value_error"
            /\ UNCHANGED <<stop_event, state, client>>
    /\ UNCHANGED <<listener_task, listeners, disconnectPc, reopens, failRun,
                   reopenedAfterDisconnect,
                   last_event_id, lastSeenId, handlerLog>>

\* Lines 126-139: the stream is open with status 200; connect() starts the
\* listener task and awaits it.
ConnectOpens ==
    /\ connectPc = "opening"
    /\ ClientUsable
    /\ state' = "connected"
    /\ listeners' = <<Listener("reading", 0)>>
    /\ listener_task' = 1
    /\ connectPc' = "listening"
    /\ last_event_id' = "None"
    /\ UNCHANGED <<stop_event, client, disconnectPc, reopens, failRun,
                   reopenedAfterDisconnect, lastSeenId, handlerLog>>

\* Lines 127-130, 144-146: the stream does not open; connect() raises.
ConnectFails ==
    /\ connectPc = "opening"
    /\ state' = "disconnected"
    /\ connectPc' = "raised"
    /\ UNCHANGED <<stop_event, client, listener_task, listeners, disconnectPc,
                   reopens, failRun, reopenedAfterDisconnect,
                   last_event_id, lastSeenId, handlerLog>>

\* Lines 290-306 after attempt n of a listener has failed: the next iteration
\* of the loop up to its sleep, or the end of the loop.  Gives the listener
\* and the state; st is the state the failed connect() left.
AfterFailedAttempt(n, st) ==
    IF n + 1 < max_reconnect_attempts
    THEN IF stop_event = "set"
         THEN <<Listener("returned", 0), st>>
         ELSE <<Listener("backoff", n + 1), st>>
    ELSE <<Listener("raised", 0), "disconnected">>

\* Lines 213-215, 285-295: the stream raises in listener i, which enters
\* _reconnect up to the first sleep.
StreamDrops(i) ==
    /\ Runs(i, "reading")
    /\ IF stop_event = "set"
       THEN /\ listeners' = SetListener(i, Listener("returned", 0))
            /\ UNCHANGED state
       ELSE LET next == AfterFailedAttempt(0 - 1, "reconnecting") IN
            /\ listeners' = SetListener(i, next[1])
            /\ state' = next[2]
    /\ UNCHANGED <<stop_event, client, listener_task, connectPc,
                   disconnectPc, reopens, failRun, reopenedAfterDisconnect,
                   last_event_id, lastSeenId, handlerLog>>

\* The handler's error gets out of _handle_event and ends the reading.
HandlerErrorEscapes(l) == Listener("backoff", 0)

\* Lines 248-256: an error the handler raises is caught and printed, and the
\* listener goes on reading.
HandlerErrorCaught(l) == l

\* Lines 188-193, 233-256: a data line is read by listener i and
\* _handle_event is called with the event id `id` ("None": the frame has no
\* id line); the handler returns or raises.
FrameDispatched(i, id, raises) ==
    /\ Runs(i, "reading")
    /\ Len(handlerLog) < MaxFrames
    /\ last_event_id' = IF id # "None" THEN id ELSE last_event_id
    /\ lastSeenId' = IF id # "None" THEN id ELSE lastSeenId
    /\ handlerLog' = Append(handlerLog, raises)
    /\ listeners' = IF raises
                    THEN SetListener(i, HandlerErrorCaught(listeners[i]))
                    ELSE listeners
    /\ UNCHANGED <<state, stop_event, client, listener_task, connectPc,
                   disconnectPc, reopens, failRun, reopenedAfterDisconnect>>

\* Lines 81-89: the Last-Event-ID header _get_headers() gives the request,
\* "None" when it sets none.
LastEventIdHeader == last_event_id

\* Line 165: the stream ends without an error and the listener returns.
StreamEnds(i) ==
    /\ Runs(i, "reading")
    /\ listeners' = SetListener(i, Listener("returned", 0))
    /\ UNCHANGED <<state, stop_event, client, listener_task, connectPc,
                   disconnectPc, reopens, failRun, reopenedAfterDisconnect,
                   last_event_id, lastSeenId, handlerLog>>

\* Lines 295-298, 119-126: the backoff sleep is over and _reconnect calls
\* connect(), which runs up to the opening of the stream.
BackoffOver(i) ==
    /\ Runs(i, "backoff")
    /\ stop_event' = "clear"
    /\ state' = "connecting"
    /\ client' = TRUE
    /\ listeners' = SetListener(i, Listener("opening", listeners[i].attempt))
    /\ reopens' = reopens + 1
    /\ reopenedAfterDisconnect' =
           (reopenedAfterDisconnect \/ disconnectPc \in {"closing", "returned"})
    /\ UNCHANGED <<listener_task, connectPc, disconnectPc, failRun,
                   last_event_id, lastSeenId, handlerLog>>

\* Lines 132-139: the reopened stream has status 200; the connect() called
\* by listener i starts the next listener task and awaits it.
ReopenSucceeds(i) ==
    /\ Runs(i, "opening")
    /\ ClientUsable
    /\ Len(listeners) < MaxDepth
    /\ state' = "connected"
    /\ listeners' = Append(SetListener(i, Listener("awaiting",
                                                   listeners[i].attempt)),
                           Listener("reading", 0))
    /\ listener_task' = i + 1
    /\ failRun' = 0
    /\ last_event_id' = "None"
    /\ UNCHANGED <<stop_event, client, connectPc, disconnectPc, reopens,
                   reopenedAfterDisconnect, lastSeenId, handlerLog>>

\* Lines 144-146, 300-306: the reopen fails, connect() raises and the loop
\* of listener i goes on.
ReopenFails(i) ==
    /\ Runs(i, "opening")
    /\ LET next == AfterFailedAttempt(listeners[i].attempt, "disconnected")
       IN /\ listeners' = SetListener(i, next[1])
          /\ state' = next[2]
    /\ failRun' = failRun + 1
    /\ UNCHANGED <<stop_event, client, listener_task, connectPc,
                   disconnectPc, reopens, reopenedAfterDisconnect,
                   last_event_id, lastSeenId, handlerLog>>

\* self._listener_task once the task at position i is over.
Forget(i) == IF listener_task = i THEN FinishedTask ELSE listener_task

\* Lines 139-146, 297-301: the listener that listener i awaits inside
\* connect() is over, and listener i resumes.
AwaitedListenerEnds(i) ==
    /\ i + 1 = Len(listeners)
    /\ listeners[i].pc = "awaiting"
    /\ Done(listeners[i + 1])
    /\ LET n == listeners[i].attempt
           next == CASE listeners[i + 1].pc = "returned" ->
                          <<Listener("returned", 0), state>>
                     [] listeners[i + 1].pc = "raised" ->
                          AfterFailedAttempt(n, "disconnected")
                     [] OTHER -> <<Listener("cancelled", 0), "disconnected">>
       IN /\ listeners' = [SubSeq(listeners, 1, i) EXCEPT ![i] = next[1]]
          /\ state' = next[2]
    /\ listener_task' = Forget(i + 1)
    /\ UNCHANGED <<stop_event, client, connectPc, disconnectPc, reopens,
                   failRun, reopenedAfterDisconnect,
                   last_event_id, lastSeenId, handlerLog>>

\* Lines 139-146: the first listener is over and the user's connect() ends.
ConnectEnds ==
    /\ connectPc = "listening"
    /\ Len(listeners) = 1
    /\ Done(listeners[1])
    /\ connectPc' = listeners[1].pc
    /\ state' = IF listeners[1].pc = "returned" THEN state ELSE "disconnected"
    /\ listeners' = <<>>
    /\ listener_task' = Forget(1)
    /\ UNCHANGED <<stop_event, client, disconnectPc, reopens, failRun,
                   reopenedAfterDisconnect,
                   last_event_id, lastSeenId, handlerLog>>

\* CancelledError is thrown into listener i where it is suspended.
ListenerCancelled(i) ==
    /\ i = Len(listeners)
    /\ listeners[i].cancelling
    /\ ~Done(listeners[i])
    /\ state' = IF listeners[i].pc = "opening" THEN "disconnected" ELSE state
    /\ listeners' = SetListener(i, Listener("cancelled", 0))
    /\ UNCHANGED <<stop_event, client, listener_task, connectPc,
                   disconnectPc, reopens, failRun, reopenedAfterDisconnect,
                   last_event_id, lastSeenId, handlerLog>>

\* Task.cancel() on self._listener_task: nothing for a task that is over.
CancelListenerTask ==
    IF listener_task > 0
    THEN IF Done(listeners[listener_task])
         THEN listeners
         ELSE SetListener(listener_task,
                          [listeners[listener_task] EXCEPT !.cancelling = TRUE])
    ELSE listeners

\* Lines 331-345: disconnect() up to `await self._client.aclose()`; with no
\* client there is nothing to await and it runs to its end.
Disconnect ==
    /\ disconnectPc = "idle"
    /\ IF stop_event = "None"
       THEN /\ disconnectPc' = "attribute_error"
            /\ UNCHANGED <<stop_event, listeners, listener_task, state>>
       ELSE /\ stop_event' = "set"
            /\ listeners' = CancelListenerTask
            /\ listener_task' = 0
            /\ IF client
               THEN disconnectPc' = "closing" /\ UNCHANGED state
               ELSE disconnectPc' = "returned" /\ state' = "disconnected"
    /\ UNCHANGED <<client, connectPc, reopens, failRun,
                   reopenedAfterDisconnect,
                   last_event_id, lastSeenId, handlerLog>>

\* Lines 345-348: the client is closed and disconnect() returns.
DisconnectEnds ==
    /\ disconnectPc = "closing"
    /\ client' = FALSE
    /\ state' = "disconnected"
    /\ disconnectPc' = "returned"
    /\ UNCHANGED <<stop_event, listener_task, listeners, connectPc, reopens,
                   failRun, reopenedAfterDisconnect,
                   last_event_id, lastSeenId, handlerLog>>

(***************************************************************************)
(*                     SSE CLIENT: THE STREAM READER                       *)
(***************************************************************************)

\* A stream is cut into chunks at up to MaxCuts places.
MaxCuts == 2

\* A carriage return character.
CR == "\r"

\* One frame: the lines 'event: ping', 'id: 7', 'data: x' and a blank line.
PingText ==
    <<"e", "v", "e", "n", "t", ":", " ", "p", "i", "n", "g", LF, "i", "d",
      ":", " ", "7", LF, "d", "a", "t", "a", ":", " ", "x", LF, LF>>

\* A comment, then two frames, the first with CR LF line ends.
TwoFrames ==
    <<":", " ", "c", LF, "d", "a", "t", "a", ":", " ", "a", CR, LF, CR, LF,
      "d", "a", "t", "a", ":", "b", LF, LF>>

\* One frame whose id line comes after its data line.
DataFirstText ==
    <<"d", "a", "t", "a", ":", " ", "x", LF, "i", "d", ":", " ", "7", LF, LF>>

\* The texts of the streams read.
StreamTexts == {PingText, TwoFrames, DataFirstText}

\* event_type = "message"
MessageType == <<"m", "e", "s", "s", "a", "g", "e">>

\* event_id = None
NoneId == <<"None">>

VARIABLES
    stream_text,   \* the text the server sends
    chunks,        \* the chunks of it that response.aiter_text() has yet to yield
    event_buffer,  \* the text in event_buffer
    event_type,    \* event_type
    event_id,      \* event_id
    dispatched     \* the _handle_event calls made: event type, id and data

pvars == <<stream_text, chunks, event_buffer, event_type, event_id,
           dispatched>>

\* The places where a text of n characters can be cut.
CutSets(n) == {S \in SUBSET (1..(n - 1)) : Cardinality(S) <= MaxCuts}

RECURSIVE Cut(_, _, _)
\* The chunks of text t from position `from` on, cut after the positions S.
Cut(t, S, from) ==
    IF \E c \in S : c >= from
    THEN LET c == CHOOSE x \in S : x >= from /\ \A y \in S : y >= from => x <= y
         IN  <<SubSeq(t, from, c)>> \o Cut(t, S, c + 1)
    ELSE <<SubSeq(t, from, Len(t))>>

\* _event_listener starts to read the stream of text t cut at S.
ReaderNew(t, S) ==
    /\ stream_text = t
    /\ chunks = Cut(t, S, 1)
    /\ event_buffer = <<>>
    /\ event_type = MessageType
    /\ event_id = NoneId
    /\ dispatched = <<>>

PInit == \E t \in StreamTexts : \E S \in CutSets(Len(t)) : ReaderNew(t, S)

\* Position of the first character c in t, 0 if there is none.
Find(t, c) ==
    IF \E i \in DOMAIN t : t[i] = c
    THEN CHOOSE i \in DOMAIN t : t[i] = c /\ \A j \in 1..(i - 1) : t[j] # c
    ELSE 0

RECURSIVE RStrip(_, _)
\* line.rstrip(c)
RStrip(t, c) ==
    IF t # <<>> /\ t[Len(t)] = c THEN RStrip(SubSeq(t, 1, Len(t) - 1), c) ELSE t

RECURSIVE LStrip(_, _)
\* value.lstrip(c)
LStrip(t, c) ==
    IF t # <<>> /\ Head(t) = c THEN LStrip(Tail(t), c) ELSE t

\* Lines 172-205: one line of the stream; r holds the text not yet looked at,
\* the event type and id, and the dispatched frames.
ProcessLine(r, line) ==
    LET colon == Find(line, ":")
        field == SubSeq(line, 1, colon - 1)
        value == LStrip(SubSeq(line, colon + 1, Len(line)), " ")
    IN
    IF line # <<>> /\ Head(line) = ":" THEN r
    ELSE IF colon > 0
    THEN IF field = <<"e", "v", "e", "n", "t">>
         THEN [r EXCEPT !.type = value]
         ELSE IF field = <<"i", "d">>
         THEN [r EXCEPT !.id = value]
         ELSE IF field = <<"d", "a", "t", "a">>
         THEN [r EXCEPT !.out = Append(@, [type |-> r.type, id |-> r.id,
                                            data |-> value]),
                        !.type = MessageType,
                        !.id = NoneId]
         ELSE r
    ELSE IF line = <<>>
    THEN [r EXCEPT !.type = MessageType, !.id = NoneId]
    ELSE r

RECURSIVE ProcessBuffer(_)
\* Lines 166-206: `while "\n" in buffer_value`.
ProcessBuffer(r) ==
    LET nl == Find(r.buf, LF) IN
    IF nl = 0 THEN r
    ELSE ProcessBuffer(
             ProcessLine([r EXCEPT !.buf = SubSeq(r.buf, nl + 1, Len(r.buf))],
                         RStrip(SubSeq(r.buf, 1, nl - 1), CR)))

\* A write that appends to the text carried over.
WriteAppending(buffer, chunk) == buffer \o chunk

\* Lines 166, 209: event_buffer.write(chunk).  The buffer was made by
\* io.StringIO(buffer_value), whose position is 0, so the chunk is written
\* over the start of the text carried over.
Write(buffer, chunk) ==
    chunk \o SubSeq(buffer, Len(chunk) + 1, Len(buffer))

\* Lines 165-209: one turn of `async for chunk in response.aiter_text()`.
ChunkArrives ==
    /\ chunks # <<>>
    /\ LET r == ProcessBuffer([buf |-> Write(event_buffer, Head(chunks)),
                               type |-> event_type, id |-> event_id,
                               out |-> dispatched])
       IN /\ event_buffer' = r.buf
          /\ event_type' = r.type
          /\ event_id' = r.id
          /\ dispatched' = r.out
    /\ chunks' = Tail(chunks)
    /\ UNCHANGED stream_text

(***************************************************************************)
(*               SUBSCRIBE MANAGER: TWO CHANNELS ON ONE CLIENT             *)
(***************************************************************************)

\* One SubscribeManager over one SSEClient.  Every subscribe() call runs
\* SSEClient.connect(channel) in a task of its own, and all of these tasks
\* work on the fields of the one client: _state, _listener_task,
\* _heartbeat_task and _subscriptions.  disconnect() is not called here, so
\* _stop_event is never set and is left out; so is _last_event_id.

Channels == {"a", "b"}

Handlers == {"h1", "h2"}

\* Live heartbeat tasks that no field refers to any more, at most.
MaxOrphans == 1

VARIABLES
    sse_state,             \* SSEClient._state
    subscriptions,         \* SSEClient._subscriptions: channel -> handler
    active_subscriptions,  \* keys of SubscribeManager._active_subscriptions
    mpc,                   \* channel -> where its subscription task stands
    cancelRequested,       \* channel -> unsubscribe() has cancelled its task
    reopened,              \* channel -> its listener reads a reopened stream
    reconnect_attempt,     \* channel -> loop variable of _reconnect, 0 outside
    current_listener,      \* channel whose listener SSEClient._listener_task is
    heartbeat_task,        \* SSEClient._heartbeat_task
    orphans                \* channel -> its live heartbeat tasks nobody holds

mvars == <<sse_state, subscriptions, active_subscriptions, mpc,
           cancelRequested, reopened, reconnect_attempt, current_listener,
           heartbeat_task, orphans>>

\* _heartbeat_task = None
NoTask == [owner |-> "None", live |-> FALSE]

\* A heartbeat task created by the code running for channel ch.
HeartbeatTask(ch) == [owner |-> ch, live |-> TRUE]

MInit ==
    /\ sse_state = "DISCONNECTED"
    /\ subscriptions = [ch \in Channels |-> "None"]
    /\ active_subscriptions = {}
    /\ mpc = [ch \in Channels |-> "none"]
    /\ cancelRequested = [ch \in Channels |-> FALSE]
    /\ reopened = [ch \in Channels |-> FALSE]
    /\ reconnect_attempt = [ch \in Channels |-> 0]
    /\ current_listener = "None"
    /\ heartbeat_task = NoTask
    /\ orphans = [ch \in Channels |-> 0]

\* The subscription task of ch is suspended and has not been cancelled.
Running(ch, pc) == mpc[ch] = pc /\ ~cancelRequested[ch]

\* subscribe(channel, handler).  For a channel that is already subscribed
\* only the handler is replaced; otherwise the handler is registered, the
\* task is created and entered into _active_subscriptions, and the caller
\* waits for the task.  A caller subscribes only when no task of the channel
\* is left over.
Subscribe(ch, handler) ==
    /\ subscriptions' = [subscriptions EXCEPT ![ch] = handler]
    /\ IF ch \in active_subscriptions
          THEN UNCHANGED <<active_subscriptions, mpc>>
          ELSE /\ mpc[ch] = "none"
               /\ active_subscriptions' = active_subscriptions \cup {ch}
               /\ mpc' = [mpc EXCEPT ![ch] = "created"]
    /\ UNCHANGED <<sse_state, cancelRequested, reopened, reconnect_attempt,
                   current_listener, heartbeat_task, orphans>>

\* The subscription task starts: connect(channel) up to the request.
TaskStarts(ch) ==
    /\ Running(ch, "created")
    /\ sse_state' = "CONNECTING"
    /\ mpc' = [mpc EXCEPT ![ch] = "opening"]
    /\ UNCHANGED <<subscriptions, active_subscriptions, cancelRequested,
                   reopened, reconnect_attempt, current_listener, heartbeat_task, orphans>>

\* Lines 136-137 of connect: a new heartbeat task and a new listener task are
\* stored in the client's fields; the heartbeat task that was stored there is
\* not cancelled.
StartBackgroundTasks(ch) ==
    /\ IF heartbeat_task.live
          THEN /\ orphans[heartbeat_task.owner] < MaxOrphans
               /\ orphans' = [orphans EXCEPT ![heartbeat_task.owner] = @ + 1]
          ELSE UNCHANGED orphans
    /\ heartbeat_task' = HeartbeatTask(ch)
    /\ current_listener' = ch

\* The response has status 200.
ChannelOpens(ch) ==
    /\ Running(ch, "opening")
    /\ sse_state' = "CONNECTED"
    /\ StartBackgroundTasks(ch)
    /\ mpc' = [mpc EXCEPT ![ch] = "reading"]
    /\ UNCHANGED <<subscriptions, active_subscriptions, cancelRequested,
                   reopened, reconnect_attempt>>

\* The request fails or the status is not 200: connect raises
\* SecureNotifyConnectionError and the subscription task ends with it.
ChannelOpenFails(ch) ==
    /\ Running(ch, "opening")
    /\ sse_state' = "DISCONNECTED"
    /\ mpc' = [mpc EXCEPT ![ch] = "failed"]
    /\ UNCHANGED <<subscriptions, active_subscriptions, cancelRequested,
                   reopened, reconnect_attempt, current_listener, heartbeat_task, orphans>>

\* subscribe() is resumed with the error of its task.
SubscribeRaises(ch) ==
    /\ mpc[ch] = "failed"
    /\ active_subscriptions' = active_subscriptions \ {ch}
    /\ mpc' = [mpc EXCEPT ![ch] = "none"]
    /\ reopened' = [reopened EXCEPT ![ch] = FALSE]
    /\ UNCHANGED <<sse_state, subscriptions, cancelRequested, reconnect_attempt,
                   current_listener, heartbeat_task, orphans>>

\* _handle_event for a frame of channel ch: the heartbeat task the client
\* holds is cancelled and replaced, then the handler of ch is called.
ChannelFrame(ch) ==
    /\ Running(ch, "reading")
    /\ heartbeat_task' = IF heartbeat_task = NoTask THEN NoTask
                                                     ELSE HeartbeatTask(ch)
    /\ UNCHANGED <<sse_state, subscriptions, active_subscriptions, mpc,
                   cancelRequested, reopened, reconnect_attempt, current_listener, orphans>>

\* A heartbeat task has slept heartbeat_interval and ends.
HeartbeatExpires ==
    /\ \/ /\ heartbeat_task.live
          /\ heartbeat_task' = [heartbeat_task EXCEPT !.live = FALSE]
          /\ UNCHANGED orphans
       \/ /\ \E ch \in Channels :
                /\ orphans[ch] > 0
                /\ orphans' = [orphans EXCEPT ![ch] = @ - 1]
          /\ UNCHANGED heartbeat_task
    /\ UNCHANGED <<sse_state, subscriptions, active_subscriptions, mpc,
                   cancelRequested, reopened, reconnect_attempt, current_listener>>

\* The stream of ch ends: the listener, connect and the subscription task
\* return, and subscribe() returns leaving the finished task registered.
ChannelStreamEnds(ch) ==
    /\ Running(ch, "reading")
    /\ mpc' = [mpc EXCEPT ![ch] = "done"]
    /\ UNCHANGED <<sse_state, subscriptions, active_subscriptions,
                   cancelRequested, reopened, reconnect_attempt, current_listener,
                   heartbeat_task, orphans>>

\* After the loop of _reconnect.
GiveUp(ch) ==
    /\ sse_state' = "DISCONNECTED"
    /\ mpc' = [mpc EXCEPT ![ch] = "failed"]
    /\ reconnect_attempt' = [reconnect_attempt EXCEPT ![ch] = 0]

\* The stream of ch raises: the listener calls _reconnect(channel).  The
\* stream of a successful reopen is taken not to raise again.
ChannelStreamDrops(ch) ==
    /\ Running(ch, "reading")
    /\ ~reopened[ch]
    /\ IF max_reconnect_attempts > 0
          THEN /\ sse_state' = "RECONNECTING"
               /\ mpc' = [mpc EXCEPT ![ch] = "backoff"]
               /\ reconnect_attempt' = [reconnect_attempt EXCEPT ![ch] = 0]
          ELSE GiveUp(ch)
    /\ UNCHANGED <<subscriptions, active_subscriptions, cancelRequested,
                   reopened, current_listener, heartbeat_task, orphans>>

\* The sleep of _reconnect is over: connect(channel) up to the request.
ChannelBackoffOver(ch) ==
    /\ Running(ch, "backoff")
    /\ sse_state' = "CONNECTING"
    /\ mpc' = [mpc EXCEPT ![ch] = "reopening"]
    /\ UNCHANGED <<subscriptions, active_subscriptions, cancelRequested,
                   reopened, reconnect_attempt, current_listener, heartbeat_task, orphans>>

ChannelReopenSucceeds(ch) ==
    /\ Running(ch, "reopening")
    /\ sse_state' = "CONNECTED"
    /\ StartBackgroundTasks(ch)
    /\ mpc' = [mpc EXCEPT ![ch] = "reading"]
    /\ reopened' = [reopened EXCEPT ![ch] = TRUE]
    /\ reconnect_attempt' = [reconnect_attempt EXCEPT ![ch] = 0]
    /\ UNCHANGED <<subscriptions, active_subscriptions, cancelRequested>>

\* connect raises inside _reconnect, which goes on to the next reconnect_attempt or
\* gives up.
ChannelReopenFails(ch) ==
    /\ Running(ch, "reopening")
    /\ IF reconnect_attempt[ch] + 1 < max_reconnect_attempts
          THEN /\ sse_state' = "DISCONNECTED"
               /\ mpc' = [mpc EXCEPT ![ch] = "backoff"]
               /\ reconnect_attempt' = [reconnect_attempt EXCEPT ![ch] = @ + 1]
          ELSE GiveUp(ch)
    /\ UNCHANGED <<subscriptions, active_subscriptions, cancelRequested,
                   reopened, current_listener, heartbeat_task, orphans>>

\* unsubscribe(channel) up to its await.  The task is taken out of
\* _active_subscriptions and cancelled.  Without a task, or with a task that
\* has returned, the handler is unregistered at once; the error of a task
\* that has failed is raised by "await task" before the handler is
\* unregistered.
Unsubscribe(ch) ==
    /\ active_subscriptions' = active_subscriptions \ {ch}
    /\ CASE ch \notin active_subscriptions ->
              /\ subscriptions' = [subscriptions EXCEPT ![ch] = "None"]
              /\ UNCHANGED <<mpc, cancelRequested, reopened>>
         [] ch \in active_subscriptions /\ mpc[ch] = "done" ->
              /\ subscriptions' = [subscriptions EXCEPT ![ch] = "None"]
              /\ mpc' = [mpc EXCEPT ![ch] = "none"]
              /\ reopened' = [reopened EXCEPT ![ch] = FALSE]
              /\ UNCHANGED cancelRequested
         [] ch \in active_subscriptions /\ mpc[ch] = "failed" ->
              UNCHANGED <<subscriptions, mpc, cancelRequested, reopened>>
         [] OTHER ->
              /\ cancelRequested' = [cancelRequested EXCEPT ![ch] = TRUE]
              /\ UNCHANGED <<subscriptions, mpc, reopened>>
    /\ UNCHANGED <<sse_state, reconnect_attempt, current_listener, heartbeat_task, orphans>>

\* The cancellation reaches the subscription task of ch.  A task that has
\* not started never runs; otherwise CancelledError is raised in the
\* listener (or in _reconnect or the request) and from there in connect,
\* whose "except asyncio.CancelledError" writes _state.
SubscriptionTaskCancelled(ch) ==
    /\ cancelRequested[ch]
    /\ mpc[ch] \in {"created", "opening", "reading", "backoff", "reopening"}
    /\ sse_state' = IF mpc[ch] = "created" THEN sse_state ELSE "DISCONNECTED"
    /\ mpc' = [mpc EXCEPT ![ch] = "cancelled"]
    /\ reconnect_attempt' = [reconnect_attempt EXCEPT ![ch] = 0]
    /\ UNCHANGED <<subscriptions, active_subscriptions, cancelRequested,
                   reopened, current_listener, heartbeat_task, orphans>>

\* subscribe() and unsubscribe() are resumed with CancelledError:
\* subscribe() pops the channel and raises, unsubscribe() unregisters the
\* handler.
UnsubscribeEnds(ch) ==
    /\ mpc[ch] = "cancelled"
    /\ active_subscriptions' = active_subscriptions \ {ch}
    /\ subscriptions' = [subscriptions EXCEPT ![ch] = "None"]
    /\ mpc' = [mpc EXCEPT ![ch] = "none"]
    /\ cancelRequested' = [cancelRequested EXCEPT ![ch] = FALSE]
    /\ reopened' = [reopened EXCEPT ![ch] = FALSE]
    /\ UNCHANGED <<sse_state, reconnect_attempt, current_listener, heartbeat_task, orphans>>

(***************************************************************************)
(*                           SPECIFICATIONS                                *)
(***************************************************************************)

vars == <<dvars, rvars, lvars, svars, pvars, mvars>>

\* Concurrent execute() calls on one RequestDeduplicator, with cancellation.
DNext ==
    \/ \E c \in DCallers, r \in Requests, u \in BOOLEAN :
          ExecuteStart(c, r[1], r[2], u) /\ UNCHANGED <<rvars, lvars, svars, pvars, mvars>>
    \/ \E c \in DCallers : OperationSucceeds(c) /\ UNCHANGED <<rvars, lvars, svars, pvars, mvars>>
    \/ \E c \in DCallers : OperationFails(c) /\ UNCHANGED <<rvars, lvars, svars, pvars, mvars>>
    \/ \E c \in DCallers : CancelExecutor(c) /\ UNCHANGED <<rvars, lvars, svars, pvars, mvars>>
    \/ \E c \in DCallers : CancelWaiter(c) /\ UNCHANGED <<rvars, lvars, svars, pvars, mvars>>
    \/ \E c \in DCallers : WaiterResumes(c) /\ UNCHANGED <<rvars, lvars, svars, pvars, mvars>>

\* The same calls while time goes by, and cleanup_expired() calls.
WNext ==
    \/ DNext
    \/ TtlPasses /\ UNCHANGED <<rvars, lvars, svars, pvars, mvars>>
    \/ CleanupExpired /\ UNCHANGED <<rvars, lvars, svars, pvars, mvars>>

\* One with_retry call, for every outcome of every invocation of func().
RNext ==
    \/ RetryStart /\ UNCHANGED <<dvars, lvars, svars, pvars, mvars>>
    \/ FuncReturns /\ UNCHANGED <<dvars, lvars, svars, pvars, mvars>>
    \/ \E e \in Errors : FuncRaises(e) /\ UNCHANGED <<dvars, lvars, svars, pvars, mvars>>
    \/ SleepOver /\ UNCHANGED <<dvars, lvars, svars, pvars, mvars>>

\* acquire() calls of concurrent callers on one RateLimiter, and the clock.
LNext ==
    \/ \E c \in LCallers, t \in Timeouts :
          Acquire(c, t) /\ UNCHANGED <<dvars, rvars, svars, pvars, mvars>>
    \/ \E c \in LCallers : LockGranted(c) /\ UNCHANGED <<dvars, rvars, svars, pvars, mvars>>
    \/ \E c \in LCallers : SleepEnds(c) /\ UNCHANGED <<dvars, rvars, svars, pvars, mvars>>
    \/ Tick /\ UNCHANGED <<dvars, rvars, svars, pvars, mvars>>

\* No with_retry call under way.
RetryIdle == RetryCall(DEFAULT_RETRY_CONFIG)

\* A limiter nobody uses.
LimiterIdle ==
    LimiterNew([max_tokens |-> 10, refill_rate |-> 1, refill_interval |-> 1], 0)

\* The user's connect() and disconnect() calls on one SSEClient, and the
\* steps of its tasks.
SNext ==
    \/ \E ch \in ChannelIds : Connect(ch) /\ UNCHANGED <<dvars, rvars, lvars, pvars, mvars>>
    \/ ConnectOpens /\ UNCHANGED <<dvars, rvars, lvars, pvars, mvars>>
    \/ ConnectFails /\ UNCHANGED <<dvars, rvars, lvars, pvars, mvars>>
    \/ \E i \in 1..MaxDepth : StreamDrops(i) /\ UNCHANGED <<dvars, rvars, lvars, pvars, mvars>>
    \/ \E i \in 1..MaxDepth, id \in EventIds, raises \in BOOLEAN :
          FrameDispatched(i, id, raises) /\ UNCHANGED <<dvars, rvars, lvars, pvars, mvars>>
    \/ \E i \in 1..MaxDepth : StreamEnds(i) /\ UNCHANGED <<dvars, rvars, lvars, pvars, mvars>>
    \/ \E i \in 1..MaxDepth : BackoffOver(i) /\ UNCHANGED <<dvars, rvars, lvars, pvars, mvars>>
    \/ \E i \in 1..MaxDepth :
          ReopenSucceeds(i) /\ UNCHANGED <<dvars, rvars, lvars, pvars, mvars>>
    \/ \E i \in 1..MaxDepth : ReopenFails(i) /\ UNCHANGED <<dvars, rvars, lvars, pvars, mvars>>
    \/ \E i \in 1..MaxDepth :
          AwaitedListenerEnds(i) /\ UNCHANGED <<dvars, rvars, lvars, pvars, mvars>>
    \/ ConnectEnds /\ UNCHANGED <<dvars, rvars, lvars, pvars, mvars>>
    \/ \E i \in 1..MaxDepth :
          ListenerCancelled(i) /\ UNCHANGED <<dvars, rvars, lvars, pvars, mvars>>
    \/ Disconnect /\ UNCHANGED <<dvars, rvars, lvars, pvars, mvars>>
    \/ DisconnectEnds /\ UNCHANGED <<dvars, rvars, lvars, pvars, mvars>>

\* A reader with nothing to read.
ReaderIdle == ReaderNew(<<>>, {})

InitDedup == DInit /\ RetryIdle /\ LimiterIdle /\ SInit /\ ReaderIdle /\ MInit

SpecDedup == InitDedup /\ [][DNext]_vars

InitWindow == DInit /\ RetryIdle /\ LimiterIdle /\ SInit /\ ReaderIdle /\ MInit

SpecWindow == InitWindow /\ [][WNext]_vars

\* execute() calls on one RequestDeduplicator, none of them cancelled, with
\* clear_pending() and clear_all() calls.  A duplicate that waits keeps the
\* lock, so that without a cancellation nothing settles the future it awaits
\* and it is never resumed.
CNext ==
    \/ \E c \in DCallers, r \in Requests, u \in BOOLEAN :
          ExecuteStart(c, r[1], r[2], u) /\ UNCHANGED <<rvars, lvars, svars, pvars, mvars>>
    \/ \E c \in DCallers : OperationSucceeds(c) /\ UNCHANGED <<rvars, lvars, svars, pvars, mvars>>
    \/ \E c \in DCallers : OperationFails(c) /\ UNCHANGED <<rvars, lvars, svars, pvars, mvars>>
    \/ \E all \in BOOLEAN : ClearPending(all) /\ UNCHANGED <<rvars, lvars, svars, pvars, mvars>>

InitClear == DInit /\ RetryIdle /\ LimiterIdle /\ SInit /\ ReaderIdle /\ MInit

SpecClear == InitClear /\ [][CNext]_vars

\* One get_delay call on a configuration.
GNext == GetDelay /\ UNCHANGED <<dvars, lvars, svars, pvars, mvars>>

InitDelay ==
    /\ \E cfg \in RetryConfigs, n \in DelayAttempts : DelayCall(cfg, n)
    /\ DInit /\ LimiterIdle /\ SInit /\ ReaderIdle /\ MInit

SpecDelay == InitDelay /\ [][GNext]_vars

InitRetry == RInit /\ DInit /\ LimiterIdle /\ SInit /\ ReaderIdle /\ MInit

SpecRetry == InitRetry /\ [][RNext]_vars

InitLimiter == LInit /\ DInit /\ RetryIdle /\ SInit /\ ReaderIdle /\ MInit

SpecLimiter == InitLimiter /\ [][LNext]_vars

\* The same acquire() calls, whose tasks can be cancelled while they are
\* suspended.
XNext ==
    \/ LNext
    \/ \E c \in LCallers : CancelSleeping(c) /\ UNCHANGED <<dvars, rvars, svars, pvars, mvars>>
    \/ \E c \in LCallers : CancelQueued(c) /\ UNCHANGED <<dvars, rvars, svars, pvars, mvars>>

InitCancel ==
    (\E cfg \in LimiterConfigs : LimiterNew(cfg, 0))
        /\ DInit /\ RetryIdle /\ SInit /\ ReaderIdle /\ MInit

SpecCancel == InitCancel /\ [][XNext]_vars

InitSSE == SInit /\ DInit /\ RetryIdle /\ LimiterIdle /\ ReaderIdle /\ MInit

SpecSSE == InitSSE /\ [][SNext]_vars

\* The listener reads one stream chunk by chunk.
PNext == ChunkArrives /\ UNCHANGED <<dvars, rvars, lvars, svars, mvars>>

InitReader == PInit /\ DInit /\ RetryIdle /\ LimiterIdle /\ SInit /\ MInit

SpecReader == InitReader /\ [][PNext]_vars

\* subscribe() and unsubscribe() calls for two channels on one manager, and
\* the steps of the tasks they start.
MNext ==
    \/ \E ch \in Channels, h \in Handlers :
          Subscribe(ch, h) /\ UNCHANGED <<dvars, rvars, lvars, svars, pvars>>
    \/ \E ch \in Channels : TaskStarts(ch) /\ UNCHANGED <<dvars, rvars, lvars, svars, pvars>>
    \/ \E ch \in Channels : ChannelOpens(ch) /\ UNCHANGED <<dvars, rvars, lvars, svars, pvars>>
    \/ \E ch \in Channels :
          ChannelOpenFails(ch) /\ UNCHANGED <<dvars, rvars, lvars, svars, pvars>>
    \/ \E ch \in Channels :
          SubscribeRaises(ch) /\ UNCHANGED <<dvars, rvars, lvars, svars, pvars>>
    \/ \E ch \in Channels : ChannelFrame(ch) /\ UNCHANGED <<dvars, rvars, lvars, svars, pvars>>
    \/ HeartbeatExpires /\ UNCHANGED <<dvars, rvars, lvars, svars, pvars>>
    \/ \E ch \in Channels :
          ChannelStreamEnds(ch) /\ UNCHANGED <<dvars, rvars, lvars, svars, pvars>>
    \/ \E ch \in Channels :
          ChannelStreamDrops(ch) /\ UNCHANGED <<dvars, rvars, lvars, svars, pvars>>
    \/ \E ch \in Channels :
          ChannelBackoffOver(ch) /\ UNCHANGED <<dvars, rvars, lvars, svars, pvars>>
    \/ \E ch \in Channels :
          ChannelReopenSucceeds(ch) /\ UNCHANGED <<dvars, rvars, lvars, svars, pvars>>
    \/ \E ch \in Channels :
          ChannelReopenFails(ch) /\ UNCHANGED <<dvars, rvars, lvars, svars, pvars>>
    \/ \E ch \in Channels : Unsubscribe(ch) /\ UNCHANGED <<dvars, rvars, lvars, svars, pvars>>
    \/ \E ch \in Channels :
          SubscriptionTaskCancelled(ch) /\ UNCHANGED <<dvars, rvars, lvars, svars, pvars>>
    \/ \E ch \in Channels :
          UnsubscribeEnds(ch) /\ UNCHANGED <<dvars, rvars, lvars, svars, pvars>>

InitChannels == MInit /\ DInit /\ RetryIdle /\ LimiterIdle /\ SInit /\ ReaderIdle

SpecChannels == InitChannels /\ [][MNext]_vars

(***************************************************************************)
(*                               CLAIMS                                    *)
(***************************************************************************)

\* The duplicate callers suspended at line 146 on the future of executor e.
Waiters(e) == {w \in DCallers : dpc[w] = "waiting" /\ cwait[w] = e}

\* C1: single-flight.  While the first call's operation is in flight the
\* duplicates do not run the operation themselves but wait on its record, and
\* once that operation has returned its value the value reaches every caller
\* of the group: neither the executor nor a waiting duplicate is blocked for
\* good short of receiving it.
C1_SingleFlight ==
    \A e \in DCallers : \A w \in Waiters(e) :
        /\ opId[w] = 0
        /\ future[e].state = "result" => (~hung /\ dpc[e] # "blocked")

\* C6: at no time are two executions of the operation in flight for the same
\* key.
C6_OneInFlightPerKey ==
    \A c1, c2 \in DCallers :
        (dpc[c1] = "running" /\ dpc[c2] = "running" /\ ckey[c1] = ckey[c2])
            => c1 = c2

\* C7: error propagation.  Once the shared operation has failed, its error
\* reaches every caller waiting on the same pending record: no waiter (and
\* not the executor) is blocked for good short of receiving it.
C7_ErrorPropagation ==
    \A e \in DCallers : \A w \in Waiters(e) :
        future[e].state = "exception" => (~hung /\ dpc[e] # "blocked")

\* C8: pending cleanup.  Every pending record belongs to an execute() call
\* that is still in progress: a call that has returned or raised (operation
\* succeeded, failed or cancelled) has left no pending record of its own.
C8_PendingCleanup ==
    \A i \in DOMAIN pending :
        /\ dpc[pending[i].future] \in {"running", "blocked"}
        /\ opId[pending[i].future] # 0

\* A call whose operation failed has raised, and no pending record is left.
C8_Witness ==
    /\ lastReturn.kind = "error"
    /\ pending = <<>>
    /\ \A c \in DCallers : dpc[c] = "idle"

\* C10: cache round-trip.  When the call that returned last was an
\* execute(..., use_cache=true) that returned a value, an execute with the
\* same endpoint and params and use_cache=true returns that value at once and
\* invokes no operation; on a fresh deduplicator (this is its second call) the
\* stats then show misses = 1 and hits = 1.
C10_CacheRoundTrip ==
    [][\A c \in DCallers, r \in Requests :
          ( /\ lastReturn.kind = "result"
            /\ lastReturn.use_cache
            /\ lastReturn.key = generate_key(r[1], r[2])
            /\ ExecuteStart(c, r[1], r[2], TRUE) )
          => /\ dpc'[c] = "idle"
             /\ lastReturn'.kind = "result"
             /\ lastReturn'.val = lastReturn.val
             /\ invocations' = invocations
             /\ (calls = 1 => (hits' = 1 /\ misses' = 1))]_vars

\* The round trip has happened on a fresh deduplicator: two calls, one
\* invocation of the operation, one miss and one hit.
C10_Witness ==
    /\ calls = 2
    /\ invocations = 1
    /\ hits = 1
    /\ misses = 1
    /\ lastReturn.kind = "result"
    /\ lastReturn.use_cache
    /\ \A c \in DCallers : dpc[c] = "idle"

\* C2: retry termination.  with_retry invokes the operation at most
\* max_retries + 1 times and, until it has returned or raised, can always take
\* its next step; when every invocation failed with a connection or timeout
\* error it has raised only after exactly max_retries + 1 invocations, and it
\* raises that error.
C2_RetryTermination ==
    /\ funcCalls <= config.max_retries + 1
    /\ (rpc \notin {"returned", "raised"}) => ENABLED RNext
    /\ (rpc = "raised" /\ onlyTransient) =>
          /\ funcCalls = config.max_retries + 1
          /\ raised = last_exception
          /\ raised.cls \in retryable_exceptions

\* max_retries = 2 and an operation that always fails with a connection or
\* timeout error: three invocations, then the error is raised.
C2_Witness ==
    /\ config.max_retries = 2
    /\ rpc = "raised"
    /\ onlyTransient
    /\ funcCalls = 3

\* Length of the observed window so far.
WindowLength == now - winStart

\* C3 as stated: in any time window of length W at most
\* capacity + floor(W / refill_interval) * refill_rate acquire calls return
\* true.
C3_ConservationAsStated ==
    now >= winStart =>
        winCount <= limiter.max_tokens
                    + (WindowLength \div limiter.refill_interval) * limiter.refill_rate

\* C3 amended: in any time window of length W at most
\* capacity + (floor(W / refill_interval) + 2) * refill_rate acquire calls
\* return true (refill_rate >= 1).
C3_Conservation ==
    now >= winStart =>
        winCount <= limiter.max_tokens
                    + (WindowLength \div limiter.refill_interval + 2) * limiter.refill_rate

\* The bound one interval short of the amended one, which the code exceeds.
C3_OneIntervalMore ==
    now >= winStart =>
        winCount <= limiter.max_tokens
                    + (WindowLength \div limiter.refill_interval + 1) * limiter.refill_rate

\* A window shorter than one interval in which more than capacity acquire
\* calls returned true.
C3_Witness ==
    /\ now >= winStart
    /\ WindowLength < limiter.refill_interval
    /\ winCount > limiter.max_tokens

\* C9: the token count lies in [0, capacity] in every reachable state.
C9_TokenRange == 0 <= tokens /\ tokens <= limiter.max_tokens

\* C4: never more than max_reconnect_attempts reopens fail in a row, and
\* when the user's connect() raises after reconnecting, exactly
\* max_reconnect_attempts reopens have failed in a row.
C4_ReconnectBound ==
    /\ failRun <= max_reconnect_attempts
    /\ (connectPc = "raised" /\ reopens > 0)
           => failRun = max_reconnect_attempts

\* C5: once disconnect() has been called the reconnect loop calls connect()
\* no more, and once it has returned the state is Disconnected.
C5_ReconnectCancelled ==
    /\ ~reopenedAfterDisconnect
    /\ disconnectPc = "returned" => state = "disconnected"

\* C11: the completed cache never holds more than max_cached entries.
C11_CompletedBound == Len(completed) <= max_cached

\* The cache is full and a key that was cached has been evicted from it.
C11_Witness ==
    /\ Len(completed) = max_cached
    /\ \E i \in DOMAIN touched : touched[i] \notin CachedKeys(completed)

\* The cached key touched least recently.
LeastRecentlyTouched ==
    touched[CHOOSE i \in DOMAIN touched :
                /\ touched[i] \in CachedKeys(completed)
                /\ \A j \in 1..(i - 1) : touched[j] \notin CachedKeys(completed)]

\* C12: storing the result of a key that is not cached in a full completed
\* cache evicts exactly the least recently touched entry.
C12_LRUVictim ==
    [][\A c \in DCallers :
          (/\ OperationSucceeds(c)
           /\ cuse[c]
           /\ Len(completed) = max_cached
           /\ ckey[c] \notin CachedKeys(completed))
          => /\ CachedKeys(completed') =
                    (CachedKeys(completed) \ {LeastRecentlyTouched})
                        \cup {ckey[c]}
             /\ Len(completed') = max_cached]_vars

\* An entry that was hit after a younger one was inserted has outlived the
\* younger one: the cache holds the first key ever cached and the key
\* returned last, and a key cached in between is gone.
C12_Witness ==
    /\ Len(touched) > max_cached
    /\ Len(completed) = max_cached
    /\ hits > 0
    /\ lastReturn.kind = "result"
    /\ completed[Len(completed)].key = lastReturn.key
    /\ touched[Len(touched)] = lastReturn.key
    /\ touched[Len(touched) - 1] \in CachedKeys(completed)
    /\ \E i \in DOMAIN touched : touched[i] \notin CachedKeys(completed)
    /\ pending = <<>>
    /\ ~hung

\* An authentication, validation, resource-conflict or not-found error.
NeverRetried(e) ==
    \/ e.cls = "SecureNotifyAuthenticationError"
    \/ /\ IsInstance(e, "SecureNotifyApiError")
       /\ e.code \in {"AUTH_REQUIRED", "AUTH_FAILED", "FORBIDDEN",
                      "VALIDATION_ERROR", "CHANNEL_EXISTS", "RESOURCE_EXISTS",
                      "NOT_FOUND"}

\* C13: once func() has failed with an authentication, validation,
\* resource-conflict or not-found error, with_retry has raised that error and
\* func() is not invoked again: one invocation when the first one fails so.
C13_NonRetryFastPath ==
    NeverRetried(last_exception) =>
        /\ rpc = "raised"
        /\ raised = last_exception
        /\ funcCalls = last_exception.id

\* The first invocation failed with such an error under the largest retry
\* budget, and with_retry raised after that one invocation.
C13_Witness ==
    /\ config.max_retries = MaxRetries
    /\ rpc = "raised"
    /\ NeverRetried(raised)
    /\ funcCalls = 1

\* C14: the error with_retry raises is the error of the last invocation of
\* func(), as it was raised.
C14_LastErrorUnchanged ==
    rpc = "raised" =>
        /\ raised = last_exception
        /\ raised.id = funcCalls

\* with_retry gave up on a connection or timeout error after an earlier
\* attempt had failed with a retryable API error.
C14_Witness ==
    /\ rpc = "raised"
    /\ funcCalls = config.max_retries + 1
    /\ funcCalls >= 2
    /\ ~onlyTransient
    /\ raised.cls \in retryable_exceptions
    /\ raised = last_exception

\* C15: connect(channel) goes on to open a stream exactly for the
\* identifiers of 1 to 256 letters, digits, hyphens and underscores; for any
\* other it raises ValueError and changes nothing of the client.
C15_ChannelIdValidation ==
    [][\A ch \in ChannelIds :
          Connect(ch) =>
              IF FullMatch(ch)
              THEN connectPc' = "opening"
              ELSE /\ connectPc' = "value_error"
                   /\ UNCHANGED <<state, stop_event, client, listener_task,
                                  listeners>>]_vars

\* The frames dispatched when the whole of text t arrives in one chunk.
FramesOf(t) ==
    ProcessBuffer([buf |-> t, type |-> MessageType, id |-> NoneId,
                   out |-> <<>>]).out

\* C16: once the whole stream has been read, the frames dispatched are those
\* dispatched when its text arrives in one chunk, however it was cut.
C16_ChunkSplitIndependence ==
    chunks = <<>> => dispatched = FramesOf(stream_text)

\* C17: when the handler raises during a dispatch the listener is still
\* reading afterwards, ready for the next frame, no reconnect has started and
\* the state is the one it was.
C17_HandlerIsolation ==
    [][\A i \in 1..MaxDepth, id \in EventIds :
          FrameDispatched(i, id, TRUE) =>
              /\ i = Len(listeners')
              /\ listeners'[i].pc = "reading"
              /\ ~listeners'[i].cancelling
              /\ state' = state
              /\ reopens' = reopens]_vars

\* The handler raised on the first frame and the next frame was dispatched
\* on the same stream all the same.
C17_Witness ==
    /\ handlerLog = <<TRUE, FALSE>>
    /\ reopens = 0
    /\ state = "connected"
    /\ connectPc = "listening"
    /\ listeners[1].pc = "reading"

\* C20: once a frame with an id has been dispatched, every reopen sends the
\* id of the last such frame as Last-Event-ID.
C20_ResumptionId ==
    [][\A i \in 1..MaxDepth :
          (BackoffOver(i) /\ lastSeenId # "None")
              => LastEventIdHeader = lastSeenId]_vars

\* The body of acquire(t) runs for caller c: it was called with the lock
\* free, or it was first in line when the lock was released.
BodyRuns(c, t) ==
    \/ Acquire(c, t) /\ lockOwner = 0 /\ lockQueue = <<>>
    \/ LockGranted(c) /\ ltimeout[c] = t

\* On a fresh bucket every one of the first max_tokens calls has returned
\* True, each took no more than one token, and none of them has had to wait.
C19_FreshBucket ==
    /\ returned <= limiter.max_tokens =>
          /\ tokens >= limiter.max_tokens - returned
          /\ returned > 0 => acquired = "True"
    /\ returned < limiter.max_tokens => \A c \in LCallers : lpc[c] = "idle"

\* C19: when acquire(timeout) finds less than one token after its refill and
\* the wait exceeds the timeout, it returns False at once and the token
\* count is what the refill left; the first max_tokens calls on a fresh
\* bucket return True without waiting.
C19_LimiterTimeout ==
    /\ []C19_FreshBucket
    /\ [][\A c \in LCallers, t \in Timeouts :
             (/\ BodyRuns(c, t)
              /\ t # NoTimeout
              /\ RefilledTokens(tokens, now - last_refill) < 1
              /\ WaitTime(RefilledTokens(tokens, now - last_refill)) > t)
             => /\ lpc'[c] = "idle"
                /\ acquired' = "False"
                /\ lockOwner' = 0
                /\ tokens' = RefilledTokens(tokens, now - last_refill)]_vars

\* An acquire call with a timeout has returned False on an empty bucket,
\* after the bucket had given out all its tokens.
C19_Witness ==
    /\ acquired = "False"
    /\ returned = limiter.max_tokens + 1
    /\ tokens = 0
    /\ \A c \in LCallers : lpc[c] = "idle"

\* A step of the connection of channel a that ends it: unsubscribe(a) and
\* the cancellation it causes, or a failure of the stream or of a request.
EndsOrFails(a) ==
    \/ Unsubscribe(a)
    \/ SubscriptionTaskCancelled(a)
    \/ UnsubscribeEnds(a)
    \/ ChannelOpenFails(a)
    \/ ChannelStreamDrops(a)
    \/ ChannelReopenFails(a)

\* What belongs to channel b is the same after the step: the connection
\* state reported for it, its reader task, its heartbeat tasks, its handler.
Untouched(b) ==
    /\ sse_state' = sse_state
    /\ mpc'[b] = mpc[b]
    /\ cancelRequested'[b] = cancelRequested[b]
    /\ current_listener = b => current_listener' = b
    /\ heartbeat_task.owner = b => heartbeat_task' = heartbeat_task
    /\ orphans'[b] = orphans[b]
    /\ subscriptions'[b] = subscriptions[b]

\* C18: multi-channel independence.  While the listener of channel b reads
\* its stream, unsubscribing another channel a of the same client, or the
\* failure of a's connection, changes nothing of b: not the connection
\* state, not b's reader task, heartbeat tasks or handler.
C18_ChannelIndependence ==
    [][\A a \in Channels, b \in Channels :
          (a # b /\ Running(b, "reading") /\ EndsOrFails(a)) => Untouched(b)]_vars

\* C21: stream loss triggers reconnect.  As long as disconnect() has not
\* been called, the state is "connected" only while a listener reads a
\* stream: when the stream is lost, by an error or by its clean end, the
\* client leaves "connected" in the same step.
C21_StreamLossReconnects ==
    (state = "connected" /\ disconnectPc = "idle")
        => \E i \in DOMAIN listeners : listeners[i].pc = "reading"

\* C22: critical sections never suspend.  A coroutine that is suspended, in
\* `await func()` or in `await pending.future`, does not hold the lock of
\* the pending set.  (The lock of the completed cache is only taken around
\* code without an await.)
C22_NoSuspendInCriticalSection ==
    \A c \in DCallers : dpc[c] \in {"running", "waiting"} => pendingLock # c

\* A step of a call that is under way: its operation ends, or the future it
\* waits for is done and it resumes.
CallProceeds ==
    \E c \in DCallers :
        OperationSucceeds(c) \/ OperationFails(c) \/ WaiterResumes(c)

\* C23: progress.  While execute() calls are under way the callers are not
\* deadlocked: one of them can take its next step, the end of an operation
\* or the delivery of a finished future.
C23_DedupProgress ==
    (\E c \in DCallers : dpc[c] # "idle") => ENABLED CallProceeds

\* C24: deduplication window.  An execute(..., use_cache=true) for a key
\* whose cached result is older than ttl_seconds invokes the operation again,
\* and after cleanup_expired() the cache holds no entry older than
\* ttl_seconds.
C24_DedupWindow ==
    /\ [][\A c \in DCallers, r \in Requests :
             (generate_key(r[1], r[2]) \in expired
                 /\ ExecuteStart(c, r[1], r[2], TRUE))
             => invocations' = invocations + 1]_vars
    /\ [][CleanupExpired => expired' = {}]_vars

\* No call is in flight.
NoCallInFlight == \A c \in DCallers : dpc[c] = "idle"

\* The next execute() for the key of the failed call that returned last
\* invokes the operation again.
RetriedAfterFailure ==
    [][\A c \in DCallers, r \in Requests :
          ( /\ lastReturn.kind = "error"
            /\ lastReturn.key = generate_key(r[1], r[2])
            /\ ~InCompleted(lastReturn.key)
            /\ NoCallInFlight
            /\ ExecuteStart(c, r[1], r[2], TRUE) )
          => /\ invocations' = invocations + 1
             /\ dpc'[c] = "running"]_vars

\* C25 as stated: after an execute() call whose operation failed, the
\* completed cache holds no entry for its key.
C25_NoEntryAfterFailure ==
    lastReturn.kind = "error" => ~InCompleted(lastReturn.key)

\* C25: failures are not cached.  The call whose operation fails leaves the
\* completed cache as it was, so a key that had no entry has none after the
\* failure, and the next execute() with that key (use_cache=true, no call in
\* flight) invokes the operation again.
C25_FailuresNotCached ==
    /\ [][\A c \in DCallers : OperationFails(c) => completed' = completed]_vars
    /\ RetriedAfterFailure

\* The operation has failed for a key without a cache entry, and the next
\* call for that key is running the operation again.
C25_Witness ==
    /\ lastReturn.kind = "error"
    /\ ~InCompleted(lastReturn.key)
    /\ errors = 1
    /\ invocations = 2
    /\ \E c \in DCallers :
          dpc[c] = "running" /\ ckey[c] = lastReturn.key /\ cuse[c]

\* The records of p that are not in q.
Gone(p, q) == {i \in DOMAIN p : \A j \in DOMAIN q : q[j] # p[i]}

\* Caller c registers a pending record in this step: the record is the last
\* one of the pending set, and a record of another key is evicted only from
\* a full set, one at a time, the one inserted first (the one whose call
\* invoked its operation first).
EvictsOldest(c) ==
    LET kept == DropKey(pending, ckey'[c])
        gone == Gone(kept, pending')
    IN /\ pending' # <<>>
       /\ pending'[Len(pending')] = [key |-> ckey'[c], future |-> c]
       /\ gone # {} =>
             /\ Len(kept) >= max_pending
             /\ Cardinality(gone) = 1
             /\ \A i \in gone, j \in DOMAIN kept :
                   opId[kept[i].future] <= opId[kept[j].future]

ClaimedRetryable(e) ==
    \/ e.cls \in {"SecureNotifyConnectionError", "SecureNotifyTimeoutError"}
    \/ /\ e.cls \in {"SecureNotifyApiError", "SecureNotifyRateLimitError"}
       /\ e.code \in {"SERVICE_UNAVAILABLE", "RATE_LIMIT_EXCEEDED"}

\* C27: retry classification.  For attempt < max_retries, should_retry is
\* true for a connection or timeout error and for an API error with a
\* retryable code, and false for an API error with a code that is not
\* retryable and for an error of any other kind; with_retry goes on after a
\* failed invocation exactly in the cases where it is true.
C27_RetryClassification ==
    /\ [](\A e \in Errors, n \in 0..MaxRetries :
             n < config.max_retries =>
                 (should_retry(config, e, n) <=> ClaimedRetryable(e)))
    /\ [][\A e \in Errors :
             (FuncRaises(e) /\ attempt < config.max_retries)
                 => ((rpc' # "raised") <=> ClaimedRetryable(e))]_vars

\* A first failure was retried and the second one, an error of another
\* kind, was raised at once although a retry was left.
C27_Witness ==
    /\ rpc = "raised"
    /\ funcCalls = 2
    /\ attempt = 1
    /\ attempt < config.max_retries
    /\ raised.cls \in {"ValueError", "SecureNotifyAuthenticationError"}

\* C28: backoff without jitter.  With jitter disabled, get_delay(attempt)
\* returns min(initial_delay * backoff_multiplier^attempt, max_delay) for
\* every attempt >= 0, which is at least the delay of the attempt before.
C28_BackoffWithoutJitter ==
    (rpc \in {"delay_returned", "overflow_error"} /\ ~config.jitter) =>
        /\ rpc = "delay_returned"
        /\ delay = BackoffDelay(config, attempt)
        /\ attempt <= MaxAttempt =>
              delay = Min(config.initial_delay
                              * Pow(config.backoff_multiplier, attempt),
                          config.max_delay)
        /\ attempt > 0 => delay >= BackoffDelay(config, attempt - 1)

\* C29: delay cap.  The delay get_delay returns, which is the time
\* with_retry sleeps before the next attempt, never exceeds max_delay, with
\* jitter enabled or disabled.
C29_DelayCap ==
    rpc \in {"delay_returned", "sleeping"} => delay <= config.max_delay

\* C30: acquire honours its timeout under contention.  A call
\* acquire(timeout=T) that cannot run at once has T > 0 and every caller
\* sleeping in the limiter wakes within T, so that the call can return
\* within T of being called; acquire(timeout=0) returns in the same step.
C30_TimeoutUnderContention ==
    [][\A c \in LCallers, t \in Timeouts :
          (t # NoTimeout /\ Acquire(c, t) /\ lpc'[c] = "queued")
              => /\ t > 0
                 /\ \A d \in LCallers :
                       lpc[d] = "sleeping" => wakeAt[d] <= now + t]_vars

\* The token count a call at time T finds after its refill, for a bucket that
\* holds t tokens refilled last at lr.
TokensAt(t, lr, T) == RefilledTokens(t, T - lr)

\* From now on every acquire() finds the token count it would have found had
\* the call that went to sleep on `found` never been made.
AsIfNeverCalled(found, t, lr) ==
    \A T \in now..(MaxTime + limiter.refill_interval) :
        TokensAt(t, lr, T) = TokensAt(found.tokens, found.last_refill, T)

\* C31: cancelling an acquire() that sleeps for a token releases the lock and
\* takes no token, and the calls made afterwards find the token count they
\* would have found had the cancelled call never been made.
C31_CancelledAcquire ==
    [][\A c \in LCallers :
          CancelSleeping(c) =>
              /\ lockOwner' = 0
              /\ tokens' = tokens
              /\ AsIfNeverCalled(before, tokens', last_refill')]_vars

\* The part of C31 that holds: the cancellation releases the lock and takes
\* no token from the count the cancelled call left.
C31_LockReleased ==
    [][\A c \in LCallers :
          CancelSleeping(c) => lockOwner' = 0 /\ tokens' = tokens]_vars

\* Whole refill intervals that have passed since the last refill.
RefillCycles == (now - last_refill) \div limiter.refill_interval

\* C32: a refill adds refill_rate tokens for every whole interval elapsed, up
\* to the capacity, and moves last_refill forward by exactly those whole
\* intervals, so that the rest of the elapsed time counts for the next refill.
C32_RefillKeepsFraction ==
    [][last_refill' # last_refill =>
          last_refill' = last_refill + RefillCycles * limiter.refill_interval]_vars

\* The part of C32 that holds: the tokens a refill adds.
C32_RefillAmount ==
    [][last_refill' # last_refill =>
          tokens' \in {t - d : t \in {Min(limiter.max_tokens,
                                          tokens + RefillCycles * limiter.refill_rate)},
                               d \in {0, 1}}]_vars

\* Listener i is inside the loop of _reconnect with an attempt still to make
\* or under way.
InReconnectLoop(i) ==
    /\ listeners[i].pc \in {"backoff", "opening"}
    /\ ~listeners[i].cancelling

\* C33: while the reconnect loop has attempts left and disconnect() has not
\* been called, the state is Reconnecting or Connecting; inside the loop it
\* is Disconnected only once every attempt has failed.
C33_DisconnectedOnlyAfterExhaustion ==
    \A i \in DOMAIN listeners :
        (InReconnectLoop(i) /\ disconnectPc = "idle")
            => state \in {"reconnecting", "connecting"}

\* Heartbeat tasks of the client that still sleep: the one the client holds
\* and the ones it has lost hold of.
PendingHeartbeats ==
    (IF heartbeat_task.live THEN 1 ELSE 0) + orphans["a"] + orphans["b"]

\* C34: a client has at most one heartbeat timer pending at any time, over
\* frames, reconnects and further connect calls.
C34_SingleHeartbeatTimer == PendingHeartbeats <= 1

\* C35: while the connection is Connected and a stream is being read, a
\* heartbeat timer is pending: when the timer has fired a new one is armed.
C35_HeartbeatRearms ==
    (sse_state = "CONNECTED" /\ \E ch \in Channels : Running(ch, "reading"))
        => PendingHeartbeats >= 1

\* The part of C35 that holds: the firing of a heartbeat timer leaves the
\* state of the connection as it is.
C35_FiringKeepsState ==
    [][PendingHeartbeats' < PendingHeartbeats => sse_state' = sse_state]_vars

\* The streams of one frame that has the id line 'id: 7'.
OneFrameWithId == {PingText, DataFirstText}

\* The resumption id after the _handle_event calls in out (line 232-233: a
\* call with an event id sets it).
ResumptionId(out) ==
    IF \E i \in DOMAIN out : out[i].id # NoneId
    THEN out[CHOOSE i \in DOMAIN out :
                 out[i].id # NoneId /\ \A j \in DOMAIN out :
                                           out[j].id # NoneId => j <= i].id
    ELSE NoneId

\* C36: a frame with an id line is dispatched with that id, and the
\* resumption id becomes that id, whatever the order of the frame's lines
\* (for a stream that arrives in one chunk).
C36_FrameIdAnyOrder ==
    [][(chunks = <<stream_text>> /\ stream_text \in OneFrameWithId)
          => /\ Len(dispatched') = 1
             /\ dispatched'[1].id = <<"7">>
             /\ ResumptionId(dispatched') = <<"7">>]_vars

\* The part of C36 that holds: with the id line before the data line.
C36_IdBeforeData ==
    [][(chunks = <<stream_text>> /\ stream_text = PingText)
          => /\ Len(dispatched') = 1
             /\ dispatched'[1].id = <<"7">>
             /\ ResumptionId(dispatched') = <<"7">>]_vars

\* The call that created the future caller c awaits is still running its
\* operation.
ExecutorRuns(c) == dpc[cwait[c]] = "running"

\* C37: when the caller executing the operation is cancelled, every duplicate
\* waiting on its pending record is released: no duplicate waits on a future
\* that is unsettled and whose executor no longer runs.
C37_CancelledExecutorReleasesWaiters ==
    \A c \in DCallers :
        dpc[c] = "waiting"
            => (ExecutorRuns(c) \/ future[cwait[c]].state # "pending")

\* The execute() call of caller c, which ran the operation, ends in this step.
ExecutorEnds(c) == dpc[c] = "running" /\ dpc'[c] = "idle"

\* C38: with clear_pending() or clear_all() called while an operation is in
\* flight, the caller executing it still returns the operation's result or
\* raises the operation's own error, and the error counter goes up only when
\* the operation itself failed.
C38_ClearKeepsOutcome ==
    [][\A c \in DCallers :
          ExecutorEnds(c) =>
              /\ lastReturn'.kind \in {"result", "error"}
              /\ lastReturn'.val = opId[c]
              /\ errors' # errors => lastReturn'.kind = "error"]_vars

\* C39: disconnect() can be called in every state of the client, also on a
\* client on which connect() was never called, and raises nothing.
C39_DisconnectSafe == disconnectPc # "attribute_error"

\* The part of C39 that holds: on a client that connect() was called on,
\* disconnect() runs to its end, which leaves the state Disconnected.
C39_AfterConnect ==
    [][(disconnectPc # "returned" /\ disconnectPc' = "returned")
          => state' = "disconnected"]_vars

\* The subscription task of ch has returned and subscribe() with it, or the
\* channel has no task.
TaskOver(ch) == mpc[ch] \in {"done", "none"}

\* C40: a channel whose subscription task is over is not in the manager's
\* active subscriptions, so that a later subscribe() opens a new stream.
C40_ActiveTracksLiveStreams ==
    \A ch \in active_subscriptions : ~TaskOver(ch)

====
